---- MODULE Spec2Model ----
(***************************************************************************)
(* The like-service: the likes store (SurrealDB table `likes`), the        *)
(* repository (LikesRepository) and the RPC handlers (LikesServiceImpl).   *)
(* Every await of a handler (one collaborator request, one storage         *)
(* statement) is one atomic step; handlers of different calls interleave.  *)
(***************************************************************************)
EXTENDS Integers, Sequences, FiniteSets, TLC

\* ------------------------------------------------------------------ bounds
\* number of Like records the service builds (Like::new) in one run
MaxLikes == 2
\* nanoseconds between two readings of the storage clock
TickNanos == 400000000

\* ------------------------------------------------------------------ values
None == <<>>

Some(x) == <<x>>

\* the (user_id, page, limit) requests clients send to GetUserLikes
UserPageRequests == {<<"e1", 1, 1>>, <<"e1", 2, 1>>, <<" ", 0, 0>>}

\* the (post_id, page, limit) requests clients send to GetPostLikes
PostPageRequests == {<<2, 1, 1>>, <<2, 0, 101>>, <<0, 1, 1>>}

\* the (user_id, post_id) requests clients send: two users and two posts
\* (one user on both posts, one post with both users), and an empty user
\* id, a whitespace-only user id and the post id zero
PairRequests ==
    {<<"e1", 1>>, <<"e1", 2>>, <<"e2", 2>>, <<"", 1>>, <<" ", 1>>, <<"e1", 0>>}

\* the post ids (u32) clients send
PostIdInputs == {0, 1, 2}

\* the (user_ids, post_ids) requests clients send to the bulk operation
ListRequests ==
    {<<<<"e1">>, <<>>>>, <<<<"e1">>, <<1>>>>, <<<<"e1">>, <<2>>>>,
     <<<<>>, <<2>>>>, <<<<"e1", "e2">>, <<2>>>>,
     <<<<>>, <<>>>>, <<<<" ">>, <<1>>>>, <<<<"e1">>, <<0>>>>}

\* the id under which the user directory stores the user known as e
CanonicalId(e) == IF e = "e1" THEN "u1" ELSE IF e = "e2" THEN "u2" ELSE "u0"

\* str::trim, on the inputs above
trim(s) == IF s = " " THEN "" ELSE s

Range(s) == {s[i] : i \in 1..Len(s)}

\* ------------------------------------------------------------------ state
VARIABLES
    likes,     \* the rows of table `likes`
    now,       \* the storage clock, in ticks: it moves on with every reading
    nextId,    \* number of Like records built so far (the next fresh uuid)
    calls,     \* the RPC calls in flight, one record per call slot
    pagination, \* a pagination computation on its own: inputs and values built
    startup,   \* the process from main's first line on: environment, position, log
    conversion, \* an error conversion on its own: the LikesError and its Status
    invocation, \* a repository call on its own: its arguments, the store before, its result
    pool       \* a client pool on its own: clients, current_index, the clients handed out

vars == <<likes, now, nextId, calls, pagination, startup, conversion, invocation, pool>>

\* the RPC calls that can be in flight at the same time
CallIds == {1, 2}

\* ----------------------------------------------------------- error texts
\* error texts as word lists; String::contains is a search for a word
Contains(text, word) == \E i \in 1..Len(text) : text[i] = word

\* the text of the engine's error for a violated UNIQUE index
IndexExistsText == <<"Database", "index", "likes_user_post", "already", "contains", "with", "record">>

\* the text of the engine's error for a statement that never ran
ConnectionText == <<"connection", "closed">>

\* the text of a row that does not fit the type it is taken as
DeserializeText == <<"missing", "field">>

\* the text of the engine's error for a statement it did not carry out
NotExecutedText == <<"The", "query", "was", "not", "executed">>

\* the text of a collaborator's gRPC Status for a request that failed
TransportText == <<"transport", "error">>

\* what client.query(..).await gives to a caller that does not look into the
\* response: Ok with every statement done, Ok with the error of a statement
\* the engine turned down held inside the response, or Err
QueryAnswers == {"done", "statement_error", "error"}

\* ------------------------------------------------------------ RPC status
\* mutant: the status of a Database error tells what the backend said
StatusFrom_detailed(error) ==
    CASE error.kind = "InvalidInput" -> [code |-> "invalid_argument", message |-> error.msg]
      [] error.kind = "NotFound" -> [code |-> "not_found", message |-> error.msg]
      [] error.kind = "AlreadyExists" -> [code |-> "already_exists", message |-> error.msg]
      [] error.kind = "Database" ->
            [code |-> "internal",
             message |-> IF Contains(error.text, "index") THEN "Database index already contains the record"
                         ELSE "Database error occurred"]
      [] error.kind = "Serialization" -> [code |-> "internal", message |-> "Serialization error occurred"]
      [] error.kind = "Internal" -> [code |-> "internal", message |-> error.msg]

\* impl From<LikesError> for Status
StatusFrom(error) ==
    CASE error.kind = "InvalidInput" -> [code |-> "invalid_argument", message |-> error.msg]
      [] error.kind = "NotFound" -> [code |-> "not_found", message |-> error.msg]
      [] error.kind = "AlreadyExists" -> [code |-> "already_exists", message |-> error.msg]
      [] error.kind = "Database" -> [code |-> "internal", message |-> "Database error occurred"]
      [] error.kind = "Serialization" -> [code |-> "internal", message |-> "Serialization error occurred"]
      [] error.kind = "Internal" -> [code |-> "internal", message |-> error.msg]

\* a LikesError value (the Database and Serialization kinds carry the engine's text)
LikesError(kind, msg, text) == [kind |-> kind, msg |-> msg, text |-> text]

\* From<surrealdb::Error> for LikesError (#[from])
DatabaseError(text) == LikesError("Database", "", text)

\* LikesServiceImpl::datetime_to_timestamp
datetime_to_timestamp(dt) == [seconds |-> dt \div 1000000000, nanos |-> dt % 1000000000]

\* ------------------------------------------------------------ pagination
\* i32::MAX and i32::MIN
MaxI32 == 2147483647

MinI32 == -MaxI32 - 1

\* numbers beyond i32 are written in two limbs: hi * Limb + lo, 0 <= lo < Limb
Limb == 2^16

\* the two limbs of a number in 0..i32::MAX
Wide(n) == [hi |-> n \div Limb, lo |-> n % Limb]

WideLess(v, w) == v.hi < w.hi \/ (v.hi = w.hi /\ v.lo < w.lo)

\* the product of a in 0..i32::MAX and b in 0..100, exact
WideMul(a, b) ==
    LET low == (a % Limb) * b
    IN [hi |-> (a \div Limb) * b + low \div Limb, lo |-> low % Limb]

\* whether a number fits i32
WideFitsI32(w) == w.hi < Limb \div 2

\* the i32 a wrapping operation leaves: the low 32 bits, two's complement
WrapI32(w) ==
    LET h == w.hi % Limb
    IN IF h >= Limb \div 2 THEN (h - Limb) * Limb + w.lo ELSE h * Limb + w.lo

\* the page and limit (i32) clients send
I32Inputs == {MinI32, -1, 0, 1, 2, 3, 10, 100, 101, 21474837, 21474838, MaxI32}

\* the row counts (i64) the store answers, up to 2^47
CountInputs ==
    {Wide(0), Wide(1), Wide(10), Wide(11), Wide(25), Wide(MaxI32),
     [hi |-> Limb \div 2, lo |-> 0], [hi |-> Limb \div 2, lo |-> 1],
     [hi |-> 100 * (Limb \div 2), lo |-> 0], [hi |-> MaxI32, lo |-> Limb - 1]}

\* mutant: page and limit are taken as they come
PaginationParams_new_unclamped(page, limit) == [page |-> page, limit |-> limit]

\* PaginationParams::new
PaginationParams_new(page, limit) ==
    [page |-> IF page < 1 THEN 1 ELSE page,
     limit |-> IF limit < 1 THEN 10 ELSE IF limit > 100 THEN 100 ELSE limit]

\* PaginationParams::offset: (self.page - 1) * self.limit in i32. A product
\* that does not fit panics in a build with overflow checks and wraps in a
\* build without them
PaginationParams_offset(params) ==
    LET product == WideMul(params.page - 1, params.limit)
    IN IF WideFitsI32(product)
       THEN {[panic |-> FALSE, value |-> WrapI32(product)]}
       ELSE {[panic |-> TRUE, value |-> 0], [panic |-> FALSE, value |-> WrapI32(product)]}

\* ((total_count as f64) / (limit as f64)).ceil() as i32: the quotient of a
\* count below 2^47 by a limit in 1..100 is off by less than 1/100 in f64,
\* so the ceiling is exact, and `as i32` saturates at i32::MAX
TotalPages(total_count, limit) ==
    LET q_hi == total_count.hi \div limit
        low == (total_count.hi % limit) * Limb + total_count.lo
        q_lo == low \div limit
        up == IF low % limit > 0 THEN 1 ELSE 0
    IN IF q_hi >= Limb \div 2 THEN MaxI32
       ELSE IF q_hi * Limb + q_lo = MaxI32 THEN MaxI32
       ELSE q_hi * Limb + q_lo + up

\* PaginatedResult::new
PaginatedResult_new(data, total_count, params) ==
    [data |-> data, total_count |-> total_count, current_page |-> params.page,
     total_pages |-> TotalPages(total_count, params.limit), limit |-> params.limit]

\* ------------------------------------------------------------ the engine
\* the timestamp time::now() yields
TimeNow(t) == t * TickNanos

\* Like::new, with the fresh uuid and the time of the call
Like_new(user_id, post_id, id, t) ==
    [id |-> id, user_id |-> user_id, post_id |-> post_id,
     liked_at |-> TimeNow(t), created_at |-> TimeNow(t), updated_at |-> TimeNow(t)]

\* mutant: the index is not UNIQUE, every insert is let in
UniqueIndexAdmits_any(store, row) == TRUE

\* DEFINE INDEX likes_user_post ... COLUMNS user_id, post_id UNIQUE: an
\* insert is let in only if no row holds the same (user_id, post_id)
UniqueIndexAdmits(store, row) ==
    ~\E l \in store : l.user_id = row.user_id /\ l.post_id = row.post_id

\* what the engine answers to one statement: the store after it, the
\* statement's own error (kept in the Response until taken) and its rows
Answer(store, err, rows) == [store |-> store, err |-> err, rows |-> rows]

\* mutant: an insert for a pair that has a row rewrites that row's times
CreateStatement_upsert(store, row) ==
    IF UniqueIndexAdmits(store, row)
    THEN Answer(store \cup {row}, None, <<row>>)
    ELSE LET touched(l) == [l EXCEPT !.liked_at = row.liked_at, !.updated_at = row.updated_at]
             same(l) == l.user_id = row.user_id /\ l.post_id = row.post_id
         IN Answer({IF same(l) THEN touched(l) ELSE l : l \in store}, None,
                   <<touched(CHOOSE l \in store : same(l))>>)

\* CREATE likes SET id = $id, user_id = $user_id, post_id = $post_id,
\* liked_at = time::now(), ...: answers the created row
CreateStatement(store, row) ==
    IF UniqueIndexAdmits(store, row)
    THEN Answer(store \cup {row}, None, <<row>>)
    ELSE Answer(store, Some(IndexExistsText), <<>>)

\* mutant: a delete keeps the rows and marks them in updated_at
DeleteStatement_soft(store, matching) ==
    Answer({IF l \in matching THEN [l EXCEPT !.updated_at = l.updated_at + 1] ELSE l : l \in store},
           None, <<>>)

\* DELETE likes WHERE ...; the statement has no RETURN clause, and a
\* DELETE without one answers no rows
DeleteStatement(store, matching) == Answer(store \ matching, None, <<>>)

\* SELECT liked_at FROM likes WHERE user_id = $user_id AND
\* post_id = $post_id LIMIT 1: answers the projection of one matching row
SelectLikedAtStatement(store, user_id, post_id) ==
    LET matching == {l \in store : l.user_id = user_id /\ l.post_id = post_id}
    IN IF matching = {}
       THEN Answer(store, None, <<>>)
       ELSE Answer(store, None, <<[liked_at |-> (CHOOSE l \in matching : TRUE).liked_at]>>)

\* SELECT count() FROM likes WHERE post_id = $post_id GROUP ALL: one row
\* holding the count, no row when nothing matches
CountStatement(store, post_id) ==
    LET n == Cardinality({l \in store : l.post_id = post_id})
    IN IF n = 0 THEN Answer(store, None, <<>>) ELSE Answer(store, None, <<[count |-> n]>>)

\* SELECT count() FROM likes WHERE user_id = $user_id GROUP ALL
CountUserStatement(store, user_id) ==
    LET n == Cardinality({l \in store : l.user_id = user_id})
    IN IF n = 0 THEN Answer(store, None, <<>>) ELSE Answer(store, None, <<[count |-> n]>>)

\* mutant: the oldest row first
RECURSIVE OrderByCreatedAt_ascending(_)
OrderByCreatedAt_ascending(rows) ==
    IF rows = {} THEN <<>>
    ELSE LET first == CHOOSE l \in rows : \A m \in rows : m.created_at >= l.created_at
         IN <<first>> \o OrderByCreatedAt_ascending(rows \ {first})

\* ORDER BY created_at DESC: the newest row first
RECURSIVE OrderByCreatedAtDesc(_)
OrderByCreatedAtDesc(rows) ==
    IF rows = {} THEN <<>>
    ELSE LET first == CHOOSE l \in rows : \A m \in rows : m.created_at <= l.created_at
         IN <<first>> \o OrderByCreatedAtDesc(rows \ {first})

\* the text of the engine's error for a START that is negative
InvalidStartText == <<"START", "clause", "must", "evaluate", "to", "a", "positive", "integer">>

\* SELECT * FROM likes WHERE ... ORDER BY created_at DESC LIMIT $limit
\* START $offset: the rows after the first offset ones, at most limit of them
SelectPageStatement(store, matching, limit, offset) ==
    LET ordered == OrderByCreatedAtDesc(matching)
        last == IF offset + limit < Len(ordered) THEN offset + limit ELSE Len(ordered)
    IN IF offset < 0 THEN Answer(store, Some(InvalidStartText), <<>>)
       ELSE IF offset >= Len(ordered) THEN Answer(store, None, <<>>)
       ELSE Answer(store, None, SubSeq(ordered, offset + 1, last))

\* the fields a row must hold to be taken as a Like (id is an Option)
LikeFields == {"user_id", "post_id", "liked_at", "created_at", "updated_at"}

\* serde: a row is a Like when every field that is not an Option is there
IsLike(row) == LikeFields \subseteq DOMAIN row

\* result.take::<Option<Like>>(0)
TakeOptionLike(answer) ==
    IF answer.err /= None THEN [ok |-> FALSE, error |-> DatabaseError(answer.err[1])]
    ELSE IF answer.rows = <<>> THEN [ok |-> TRUE, value |-> None]
    ELSE IF IsLike(answer.rows[1]) THEN [ok |-> TRUE, value |-> Some(answer.rows[1])]
    ELSE [ok |-> FALSE, error |-> DatabaseError(DeserializeText)]

\* result.take::<Vec<Like>>(0)
TakeVecLike(answer) ==
    IF answer.err /= None THEN [ok |-> FALSE, error |-> DatabaseError(answer.err[1])]
    ELSE IF \A i \in 1..Len(answer.rows) : IsLike(answer.rows[i])
    THEN [ok |-> TRUE, value |-> answer.rows]
    ELSE [ok |-> FALSE, error |-> DatabaseError(DeserializeText)]

\* result.take::<Option<serde_json::Value>>(0)
TakeOptionValue(answer) ==
    IF answer.err /= None THEN [ok |-> FALSE, error |-> DatabaseError(answer.err[1])]
    ELSE IF answer.rows = <<>> THEN [ok |-> TRUE, value |-> None]
    ELSE [ok |-> TRUE, value |-> Some(answer.rows[1])]

\* -------------------------------------------------------- the repository
\* a repository call's result: Ok(value) or Err(error), the store after the
\* call, and the number of rows its statement matched or wrote
Ok(value, store, rows) == [ok |-> TRUE, value |-> value, store |-> store, rows |-> rows]

Err(error, store) == [ok |-> FALSE, error |-> error, store |-> store, rows |-> 0]

\* the closure create_like hands to map_err
create_like_map_err(text) ==
    IF Contains(text, "duplicate")
    THEN LikesError("AlreadyExists", "User has already liked this post", None)
    ELSE DatabaseError(text)

\* create_like: control reaches Like::new, past the two input checks
create_like_valid(user_id, post_id) == user_id /= "" /\ post_id > 0

\* create_like from the Response on: result.take(0)?, then ok_or_else
create_like_take(answer) ==
    LET created_like == TakeOptionLike(answer)
    IN IF ~created_like.ok THEN Err(created_like.error, answer.store)
       ELSE IF created_like.value = None
       THEN Err(LikesError("Internal", "Failed to create like", None), answer.store)
       ELSE Ok(created_like.value[1], answer.store, 1)

\* mutant: the insert is issued without looking at the arguments
create_like_unchecked(store, user_id, post_id, id, t, up) ==
    IF ~up THEN Err(create_like_map_err(ConnectionText), store)
    ELSE create_like_take(CreateStatement(store, Like_new(user_id, post_id, id, t)))

\* LikesRepository::create_like; up: the statement reaches the engine
create_like(store, user_id, post_id, id, t, up) ==
    IF user_id = "" THEN Err(LikesError("InvalidInput", "User ID cannot be empty", None), store)
    ELSE IF post_id <= 0
    THEN Err(LikesError("InvalidInput", "Post ID must be a positive integer", None), store)
    ELSE IF ~up THEN Err(create_like_map_err(ConnectionText), store)
    ELSE create_like_take(CreateStatement(store, Like_new(user_id, post_id, id, t)))

\* mutant: the delete matches on the user alone
delete_like_by_user(store, user_id, post_id, up) ==
    IF ~up THEN Err(DatabaseError(ConnectionText), store)
    ELSE LET matching == {l \in store : l.user_id = user_id}
             answer == DeleteStatement(store, matching)
             deleted == TakeVecLike(answer)
         IN IF ~deleted.ok THEN Err(deleted.error, answer.store)
            ELSE Ok(deleted.value /= <<>>, answer.store, Cardinality(matching))

\* LikesRepository::delete_like
delete_like(store, user_id, post_id, up) ==
    IF ~up THEN Err(DatabaseError(ConnectionText), store)
    ELSE LET matching == {l \in store : l.user_id = user_id /\ l.post_id = post_id}
             answer == DeleteStatement(store, matching)
             deleted == TakeVecLike(answer)
         IN IF ~deleted.ok THEN Err(deleted.error, answer.store)
            ELSE Ok(deleted.value /= <<>>, answer.store, Cardinality(matching))

\* mutant: the look-up marks the row it found
is_post_liked_marking(store, user_id, post_id, up) ==
    LET marked == {IF l.user_id = user_id /\ l.post_id = post_id
                   THEN [l EXCEPT !.updated_at = l.updated_at + 1] ELSE l : l \in store}
    IN IF ~up THEN Err(DatabaseError(ConnectionText), store)
       ELSE LET answer == SelectLikedAtStatement(store, user_id, post_id)
                like == TakeOptionLike(answer)
            IN IF ~like.ok THEN Err(like.error, marked)
               ELSE IF like.value = None THEN Ok(None, marked, 0)
               ELSE Ok(Some(like.value[1].liked_at), marked, 1)

\* LikesRepository::is_post_liked
is_post_liked(store, user_id, post_id, up) ==
    IF ~up THEN Err(DatabaseError(ConnectionText), store)
    ELSE LET answer == SelectLikedAtStatement(store, user_id, post_id)
             like == TakeOptionLike(answer)
         IN IF ~like.ok THEN Err(like.error, store)
            ELSE IF like.value = None THEN Ok(None, store, 0)
            ELSE Ok(Some(like.value[1].liked_at), store, 1)

\* mutant: no count row is an error instead of the count 0
get_likes_count_no_default(store, post_id, up) ==
    IF ~up THEN Err(DatabaseError(ConnectionText), store)
    ELSE LET answer == CountStatement(store, post_id)
             count_data == TakeOptionValue(answer)
         IN IF ~count_data.ok THEN Err(count_data.error, store)
            ELSE IF count_data.value = None
            THEN Err(LikesError("NotFound", "No likes found", None), store)
            ELSE Ok(count_data.value[1].count, store,
                    Cardinality({l \in store : l.post_id = post_id}))

\* LikesRepository::get_likes_count
get_likes_count(store, post_id, up) ==
    IF ~up THEN Err(DatabaseError(ConnectionText), store)
    ELSE LET answer == CountStatement(store, post_id)
             count_data == TakeOptionValue(answer)
         IN IF ~count_data.ok THEN Err(count_data.error, store)
            ELSE Ok(IF count_data.value = None THEN 0 ELSE count_data.value[1].count,
                    store, Cardinality({l \in store : l.post_id = post_id}))

\* get_user_likes and get_post_likes, first statement: the total count
get_likes_total_count(answer, store) ==
    LET count_data == TakeOptionValue(answer)
    IN IF ~count_data.ok THEN Err(count_data.error, store)
       ELSE Ok(IF count_data.value = None THEN 0 ELSE count_data.value[1].count, store, 0)

\* mutant: a count below the number of rows fetched is put right
get_likes_page_corrected(answer, store, total_count, params) ==
    LET likes_taken == TakeVecLike(answer)
    IN IF ~likes_taken.ok THEN Err(likes_taken.error, store)
       ELSE Ok(PaginatedResult_new(likes_taken.value,
                   Wide(IF Len(likes_taken.value) > total_count
                        THEN Len(likes_taken.value) ELSE total_count), params),
               store, Len(likes_taken.value))

\* get_user_likes and get_post_likes, second statement: the page of rows,
\* and PaginatedResult::new on them
get_likes_page(answer, store, total_count, params) ==
    LET likes_taken == TakeVecLike(answer)
    IN IF ~likes_taken.ok THEN Err(likes_taken.error, store)
       ELSE Ok(PaginatedResult_new(likes_taken.value, Wide(total_count), params),
               store, Len(likes_taken.value))

\* LikesRepository::get_user_likes up to its second await
get_user_likes_count(store, user_id, up) ==
    IF ~up THEN Err(DatabaseError(ConnectionText), store)
    ELSE get_likes_total_count(CountUserStatement(store, user_id), store)

\* LikesRepository::get_user_likes from its second await on; offset is the
\* value params.offset() gave
get_user_likes(store, user_id, params, total_count, offset, up) ==
    IF ~up THEN Err(DatabaseError(ConnectionText), store)
    ELSE get_likes_page(
            SelectPageStatement(store, {l \in store : l.user_id = user_id}, params.limit, offset),
            store, total_count, params)

\* mutant: the count is taken over the whole table
get_post_likes_count_unfiltered(store, post_id, up) ==
    IF ~up THEN Err(DatabaseError(ConnectionText), store)
    ELSE get_likes_total_count(
            Answer(store, None, IF store = {} THEN <<>> ELSE <<[count |-> Cardinality(store)]>>),
            store)

\* LikesRepository::get_post_likes up to its second await
get_post_likes_count(store, post_id, up) ==
    IF ~up THEN Err(DatabaseError(ConnectionText), store)
    ELSE get_likes_total_count(CountStatement(store, post_id), store)

\* LikesRepository::get_post_likes from its second await on
get_post_likes(store, post_id, params, total_count, offset, up) ==
    IF ~up THEN Err(DatabaseError(ConnectionText), store)
    ELSE get_likes_page(
            SelectPageStatement(store, {l \in store : l.post_id = post_id}, params.limit, offset),
            store, total_count, params)

\* LikesRepository::health_check over Database::health_check: INFO FOR DB,
\* with a match on the Result of client.query(..).await alone
health_check(store, answer) ==
    IF answer = "error" THEN Err(DatabaseError(ConnectionText), store) ELSE Ok(TRUE, store, 0)

\* the conditions unlike_posts pushes, one per list that is not empty
unlike_posts_conditions(user_ids, post_ids) ==
    (IF user_ids /= <<>> THEN {"user_id IN $user_ids"} ELSE {})
        \cup (IF post_ids /= <<>> THEN {"post_id IN $post_ids"} ELSE {})

\* whether row l meets one condition
ConditionHolds(cond, l, user_ids, post_ids) ==
    IF cond = "user_id IN $user_ids" THEN l.user_id \in Range(user_ids)
    ELSE l.post_id \in Range(post_ids)

\* mutant: the conditions are joined with OR
unlike_posts_where_or(store, user_ids, post_ids) ==
    {l \in store : \E cond \in unlike_posts_conditions(user_ids, post_ids) :
                        ConditionHolds(cond, l, user_ids, post_ids)}

\* conditions.join(" AND "): the rows of the WHERE clause
unlike_posts_where(store, user_ids, post_ids) ==
    {l \in store : \A cond \in unlike_posts_conditions(user_ids, post_ids) :
                        ConditionHolds(cond, l, user_ids, post_ids)}

\* mutant: the call is rejected when either list is empty
unlike_posts_either(store, user_ids, post_ids, up) ==
    IF user_ids = <<>> \/ post_ids = <<>>
    THEN Err(LikesError("InvalidInput", "At least one of user_ids or post_ids must be provided", None), store)
    ELSE IF ~up THEN Err(DatabaseError(ConnectionText), store)
    ELSE LET matching == unlike_posts_where(store, user_ids, post_ids)
             answer == DeleteStatement(store, matching)
             deleted == TakeVecLike(answer)
         IN IF ~deleted.ok THEN Err(deleted.error, answer.store)
            ELSE Ok(deleted.value /= <<>>, answer.store, Cardinality(matching))

\* LikesRepository::unlike_posts
unlike_posts(store, user_ids, post_ids, up) ==
    IF user_ids = <<>> /\ post_ids = <<>>
    THEN Err(LikesError("InvalidInput", "At least one of user_ids or post_ids must be provided", None), store)
    ELSE IF ~up THEN Err(DatabaseError(ConnectionText), store)
    ELSE LET matching == unlike_posts_where(store, user_ids, post_ids)
             answer == DeleteStatement(store, matching)
             deleted == TakeVecLike(answer)
         IN IF ~deleted.ok THEN Err(deleted.error, answer.store)
            ELSE Ok(deleted.value /= <<>>, answer.store, Cardinality(matching))

\* ------------------------------------------------------ the collaborators
\* what the user service can answer to GetUser(e): a transport error, or a
\* GetUserResponse with its success flag and its optional user record
GetUserReplies(e) ==
    {[err |-> TRUE, success |-> FALSE, user |-> None]}
        \cup {[err |-> FALSE, success |-> s, user |-> u] :
                s \in BOOLEAN, u \in {None, Some(CanonicalId(e))}}

\* what the post service can answer to GetPost(p)
GetPostReplies == {[err |-> e, success |-> s] : e \in {FALSE}, s \in BOOLEAN}
                      \cup {[err |-> TRUE, success |-> FALSE]}

\* UserClient::get_user: no request for an empty id, else the reply
get_user(user_id, reply) ==
    IF user_id = "" THEN [err |-> TRUE, success |-> FALSE, user |-> None] ELSE reply

\* the text of the error a collaborator request ended with
ReplyText(response) == IF response.err THEN TransportText ELSE None

\* mutant: the existence check hands the error of its request on
user_exists_failing(user_id, reply) ==
    LET response == get_user(user_id, reply)
    IN IF response.err THEN [ok |-> FALSE, error |-> "Failed to get user"]
       ELSE [ok |-> TRUE, value |-> response.success /\ response.user /= None]

\* UserClient::user_exists, a Result<bool>: Err(_) => Ok(false)
user_exists(user_id, reply) ==
    LET response == get_user(user_id, reply)
    IN IF response.err THEN [ok |-> TRUE, value |-> FALSE]
       ELSE [ok |-> TRUE, value |-> response.success /\ response.user /= None]

\* PostClient::get_post
get_post(post_id, reply) ==
    IF post_id <= 0 THEN [err |-> TRUE, success |-> FALSE] ELSE reply

\* PostClient::post_exists, a Result<bool>: Err(_) => Ok(false)
post_exists(post_id, reply) ==
    LET response == get_post(post_id, reply)
    IN IF response.err THEN [ok |-> TRUE, value |-> FALSE]
       ELSE [ok |-> TRUE, value |-> response.success]

\* ------------------------------------------------------------ the service
\* the methods of impl LikesService for LikesServiceImpl
LikesServiceMethods ==
    {"LikePost", "UnlikePost", "GetUserLikes", "GetPostLikes", "IsPostLiked",
     "GetLikesCount", "UnlikePosts", "HealthCheck"}

\* the operations of the RPC surface
RpcSurface ==
    {"LikePost", "UnlikePost", "GetUserLikes", "GetPostLikes", "IsPostLiked",
     "GetLikesCount", "GetLikesCountBulk", "UnlikePosts", "HealthCheck"}

\* a response: the RPC status code and message, and the fields of the
\* response messages (those an operation does not have keep their default)
Response(code, message) ==
    [code |-> code, message |-> message, success |-> FALSE, liked_at |-> None,
     is_liked |-> FALSE, count |-> 0, likes |-> <<>>, pagination |-> None, status |-> "",
     timestamp |-> None]

\* Err(status)
StatusResponse(status) == Response(status.code, status.message)

\* one downstream request of a call: what was called, how it ended, the
\* rows the storage statement matched or wrote, and the error text of the
\* engine or of the collaborator
IoEntry(call, outcome, rows, text) ==
    [call |-> call, outcome |-> outcome, rows |-> rows, text |-> text]

\* how a repository call ended
Outcome(result) == IF result.ok THEN "Ok" ELSE result.error.kind

\* a call slot with no call in it
Idle ==
    [op |-> "none", user_id |-> "", post_id |-> 0, user_ids |-> <<>>, post_ids |-> <<>>,
     pc |-> "idle", db_user_id |-> "", db_user_ids |-> <<>>, io |-> <<>>,
     page |-> 0, limit |-> 0, total_count |-> 0,
     resp |-> Response("pending", "")]

\* the call returns resp
Return(call, resp) == [call EXCEPT !.pc = "done", !.resp = resp]

\* LikesServiceImpl::validate_ids
validate_ids(user_id, post_id) ==
    IF trim(user_id) = ""
    THEN [ok |-> FALSE, status |-> [code |-> "invalid_argument", message |-> "User ID cannot be empty"]]
    ELSE IF post_id = 0
    THEN [ok |-> FALSE, status |-> [code |-> "invalid_argument", message |-> "Post ID must be greater than 0"]]
    ELSE [ok |-> TRUE]

\* mutant: absence is answered with the not-found status
like_post_absent_status(message) == Response("not_found", message)

\* the response of like_post when an existence check reports absence
like_post_absent(message) ==
    [Response("ok", message) EXCEPT !.success = FALSE, !.liked_at = None]

\* like_post up to its first await
like_post_begin(user_id, post_id) ==
    LET call == [Idle EXCEPT !.op = "LikePost", !.user_id = user_id, !.post_id = post_id]
        valid == validate_ids(user_id, post_id)
    IN IF ~valid.ok THEN Return(call, StatusResponse(valid.status))
       ELSE [call EXCEPT !.pc = "user_exists"]

\* how an existence check ended
ExistsOutcome(exists) ==
    IF ~exists.ok THEN "err" ELSE IF exists.value THEN "true" ELSE "false"

\* like_post: user_client.user_exists(..).await
like_post_user_exists(call, reply) ==
    LET exists == user_exists(call.user_id, reply)
        seen == [call EXCEPT !.io = Append(@, IoEntry("user_exists", ExistsOutcome(exists), 0,
                                                      ReplyText(get_user(call.user_id, reply))))]
    IN IF ~exists.ok THEN Return(seen, Response("internal", "User validation failed"))
       ELSE IF ~exists.value THEN Return(seen, like_post_absent("User not found"))
       ELSE [seen EXCEPT !.pc = "get_user"]

\* mutant: the store is addressed with the id the caller supplied
resolve_user_external(user_id, reply) ==
    LET user == get_user(user_id, reply)
    IN IF user.err
       THEN [ok |-> FALSE, outcome |-> "err",
             status |-> [code |-> "internal", message |-> "Failed to get user details"]]
       ELSE IF user.user = None
       THEN [ok |-> FALSE, outcome |-> "none",
             status |-> [code |-> "not_found", message |-> "User not found"]]
       ELSE [ok |-> TRUE, outcome |-> "some", id |-> user_id]

\* the resolution of the canonical user id all handlers share:
\* user_client.get_user(..).await, then user.user.as_ref().ok_or_else(..)
resolve_user(user_id, reply) ==
    LET user == get_user(user_id, reply)
    IN IF user.err
       THEN [ok |-> FALSE, outcome |-> "err",
             status |-> [code |-> "internal", message |-> "Failed to get user details"]]
       ELSE IF user.user = None
       THEN [ok |-> FALSE, outcome |-> "none",
             status |-> [code |-> "not_found", message |-> "User not found"]]
       ELSE [ok |-> TRUE, outcome |-> "some", id |-> user.user[1]]

\* mutant: a user that cannot be resolved is answered with a structured failure
get_user_step_soft(call, reply, next) ==
    LET user == resolve_user(call.user_id, reply)
        seen == [call EXCEPT !.io = Append(@, IoEntry("get_user", user.outcome, 0, None))]
    IN IF ~user.ok THEN Return(seen, Response("ok", "User not found"))
       ELSE [seen EXCEPT !.db_user_id = user.id, !.pc = next]

\* a handler's get_user step: on success go on at pc next
get_user_step(call, reply, next) ==
    LET user == resolve_user(call.user_id, reply)
        seen == [call EXCEPT !.io = Append(@, IoEntry("get_user", user.outcome, 0, None))]
    IN IF ~user.ok THEN Return(seen, StatusResponse(user.status))
       ELSE [seen EXCEPT !.db_user_id = user.id, !.pc = next]

\* mutant: the insert is issued whatever the post existence check reports
like_post_post_exists_lenient(call, reply) ==
    LET exists == post_exists(call.post_id, reply)
    IN [call EXCEPT !.io = Append(@, IoEntry("post_exists", ExistsOutcome(exists), 0,
                                             ReplyText(get_post(call.post_id, reply)))),
                    !.pc = "create_like"]

\* like_post: post_client.post_exists(..).await
like_post_post_exists(call, reply) ==
    LET exists == post_exists(call.post_id, reply)
        seen == [call EXCEPT !.io = Append(@, IoEntry("post_exists", ExistsOutcome(exists), 0,
                                                      ReplyText(get_post(call.post_id, reply))))]
    IN IF ~exists.ok THEN Return(seen, Response("internal", "Post validation failed"))
       ELSE IF ~exists.value THEN Return(seen, like_post_absent("Post not found"))
       ELSE [seen EXCEPT !.pc = "create_like"]

\* mutant: a failed insert is answered with a structured failure
like_post_response_soft(result) ==
    IF result.ok
    THEN [Response("ok", "Post liked successfully") EXCEPT
            !.success = TRUE, !.liked_at = Some(datetime_to_timestamp(result.value.liked_at))]
    ELSE like_post_absent("Failed to like post")

\* like_post: the match on repository.create_like(..).await
like_post_response(result) ==
    IF result.ok
    THEN [Response("ok", "Post liked successfully") EXCEPT
            !.success = TRUE, !.liked_at = Some(datetime_to_timestamp(result.value.liked_at))]
    ELSE StatusResponse(StatusFrom(result.error))

\* unlike_post up to its first await
unlike_post_begin(user_id, post_id) ==
    LET call == [Idle EXCEPT !.op = "UnlikePost", !.user_id = user_id, !.post_id = post_id]
        valid == validate_ids(user_id, post_id)
    IN IF ~valid.ok THEN Return(call, StatusResponse(valid.status))
       ELSE [call EXCEPT !.pc = "get_user"]

\* mutant: a delete that removed nothing is answered with the not-found status
unlike_post_response_strict(result) ==
    IF result.ok
    THEN IF result.value
         THEN [Response("ok", "Post unliked successfully") EXCEPT !.success = TRUE]
         ELSE Response("not_found", "Like not found")
    ELSE StatusResponse(StatusFrom(result.error))

\* unlike_post: the match on repository.delete_like(..).await
unlike_post_response(result) ==
    IF result.ok
    THEN IF result.value
         THEN [Response("ok", "Post unliked successfully") EXCEPT !.success = TRUE]
         ELSE [Response("ok", "Like not found") EXCEPT !.success = FALSE]
    ELSE StatusResponse(StatusFrom(result.error))

\* is_post_liked up to its first await
is_post_liked_begin(user_id, post_id) ==
    LET call == [Idle EXCEPT !.op = "IsPostLiked", !.user_id = user_id, !.post_id = post_id]
        valid == validate_ids(user_id, post_id)
    IN IF ~valid.ok THEN Return(call, StatusResponse(valid.status))
       ELSE [call EXCEPT !.pc = "get_user"]

\* is_post_liked: the match on repository.is_post_liked(..).await
is_post_liked_response(result) ==
    IF result.ok
    THEN [Response("ok", "") EXCEPT
            !.is_liked = (result.value /= None),
            !.liked_at = IF result.value = None THEN None
                         ELSE Some(datetime_to_timestamp(result.value[1]))]
    ELSE StatusResponse(StatusFrom(result.error))

\* get_likes_count up to its first await
get_likes_count_begin(post_id) ==
    LET call == [Idle EXCEPT !.op = "GetLikesCount", !.post_id = post_id]
    IN IF post_id <= 0
       THEN Return(call, Response("invalid_argument", "Post ID must be a positive integer"))
       ELSE [call EXCEPT !.pc = "get_likes_count"]

\* get_likes_count: the match on repository.get_likes_count(..).await
get_likes_count_response(result) ==
    IF result.ok THEN [Response("ok", "") EXCEPT !.count = result.value]
    ELSE StatusResponse(StatusFrom(result.error))

\* unlike_posts: the validation of the post ids, after the resolution loop
unlike_posts_validate_posts(call) ==
    IF \E i \in 1..Len(call.post_ids) : call.post_ids[i] <= 0
    THEN Return(call, Response("invalid_argument", "Post ID must be a positive integer"))
    ELSE [call EXCEPT !.pc = "unlike_posts"]

\* unlike_posts up to its first await
unlike_posts_begin(user_ids, post_ids) ==
    LET call == [Idle EXCEPT !.op = "UnlikePosts", !.user_ids = user_ids, !.post_ids = post_ids]
    IN IF user_ids = <<>> /\ post_ids = <<>>
       THEN Return(call, Response("invalid_argument", "User IDs and Post IDs cannot be empty"))
       ELSE IF \E i \in 1..Len(user_ids) : trim(user_ids[i]) = ""
       THEN Return(call, Response("invalid_argument", "User ID cannot be empty"))
       ELSE IF user_ids /= <<>> THEN [call EXCEPT !.pc = "resolve"]
       ELSE unlike_posts_validate_posts(call)

\* mutant: an id that cannot be resolved is left out and the loop goes on
unlike_posts_resolve_skipping(call, reply) ==
    LET external_user_id == call.user_ids[Len(call.db_user_ids) + 1]
        user == resolve_user(external_user_id, reply)
        seen == [call EXCEPT !.io = Append(@, IoEntry("get_user", user.outcome, 0, None))]
        pushed == [seen EXCEPT !.db_user_ids =
                      Append(@, IF user.ok THEN user.id ELSE CanonicalId("nobody"))]
    IN IF Len(pushed.db_user_ids) < Len(call.user_ids) THEN pushed
       ELSE unlike_posts_validate_posts(pushed)

\* unlike_posts: one round of the loop over req.user_ids
unlike_posts_resolve(call, reply) ==
    LET external_user_id == call.user_ids[Len(call.db_user_ids) + 1]
        user == resolve_user(external_user_id, reply)
        seen == [call EXCEPT !.io = Append(@, IoEntry("get_user", user.outcome, 0, None))]
    IN IF ~user.ok THEN Return(seen, StatusResponse(user.status))
       ELSE LET pushed == [seen EXCEPT !.db_user_ids = Append(@, user.id)]
            IN IF Len(pushed.db_user_ids) < Len(call.user_ids) THEN pushed
               ELSE unlike_posts_validate_posts(pushed)

\* unlike_posts: the match on repository.unlike_posts(..).await
unlike_posts_response(result) ==
    IF result.ok
    THEN [Response("ok", IF result.value THEN "Posts unliked successfully"
                         ELSE "No likes found to unlike") EXCEPT !.success = result.value]
    ELSE StatusResponse(StatusFrom(result.error))

\* get_user_likes up to its first await
get_user_likes_begin(user_id, page, limit) ==
    LET call == [Idle EXCEPT !.op = "GetUserLikes", !.user_id = user_id,
                             !.page = page, !.limit = limit]
    IN IF trim(user_id) = ""
       THEN Return(call, Response("invalid_argument", "User ID cannot be empty"))
       ELSE [call EXCEPT !.pc = "get_user"]

\* get_post_likes up to its first await
get_post_likes_begin(post_id, page, limit) ==
    LET call == [Idle EXCEPT !.op = "GetPostLikes", !.post_id = post_id,
                             !.page = page, !.limit = limit]
    IN IF post_id <= 0
       THEN Return(call, Response("invalid_argument", "Post ID must be a positive integer"))
       ELSE [call EXCEPT !.pc = "count"]

\* get_user_likes, get_post_likes: the PaginationInfo of the response
PaginationInfo(result) ==
    [current_page |-> result.current_page, total_pages |-> result.total_pages,
     total_count |-> result.total_count, limit |-> result.limit]

\* get_user_likes: the match on repository.get_user_likes(..).await
get_user_likes_response(result) ==
    IF result.ok
    THEN [Response("ok", "") EXCEPT
            !.likes = [i \in 1..Len(result.value.data) |->
                          [post_id |-> result.value.data[i].post_id,
                           liked_at |-> Some(datetime_to_timestamp(result.value.data[i].liked_at))]],
            !.pagination = Some(PaginationInfo(result.value))]
    ELSE StatusResponse(StatusFrom(result.error))

\* get_post_likes: the match on repository.get_post_likes(..).await
get_post_likes_response(result) ==
    IF result.ok
    THEN [Response("ok", "") EXCEPT
            !.likes = [i \in 1..Len(result.value.data) |->
                          [user_id |-> result.value.data[i].user_id,
                           liked_at |-> Some(datetime_to_timestamp(result.value.data[i].liked_at))]],
            !.pagination = Some(PaginationInfo(result.value))]
    ELSE StatusResponse(StatusFrom(result.error))

\* mutant: a count that failed is issued again
count_step_retrying(call, name, result) ==
    LET seen == [call EXCEPT !.io = Append(@, IoEntry(name, Outcome(result), result.rows,
                                                      IF result.ok THEN None ELSE result.error.text))]
    IN IF ~result.ok THEN seen
       ELSE [seen EXCEPT !.total_count = result.value, !.pc = "page"]

\* the first statement of a paginated read has answered: on success keep
\* the total count and go on to the second statement
count_step(call, name, result) ==
    LET seen == [call EXCEPT !.io = Append(@, IoEntry(name, Outcome(result), result.rows,
                                                      IF result.ok THEN None ELSE result.error.text))]
    IN IF ~result.ok THEN Return(seen, StatusResponse(StatusFrom(result.error)))
       ELSE [seen EXCEPT !.total_count = result.value, !.pc = "page"]

\* the handler's task panicked: the call ends without a response of the handler
Panicked(call) == Return(call, Response("panic", ""))

\* health_check: the match on repository.health_check().await; t is the
\* reading of chrono::Utc::now()
health_check_response(result, t) ==
    IF result.ok
    THEN [Response("ok", "") EXCEPT !.status = "healthy",
                                    !.timestamp = Some(datetime_to_timestamp(TimeNow(t)))]
    ELSE Response("internal", "Service unhealthy")

\* health_check: the request to the storage is logged with the error the
\* engine answered, also when it is held inside a response nobody looks into
health_check_step(call, answer, result, resp) ==
    Return([call EXCEPT !.io = Append(@, IoEntry("health_check", Outcome(result), 0,
                CASE answer = "done" -> None
                  [] answer = "statement_error" -> NotExecutedText
                  [] answer = "error" -> ConnectionText))],
           resp)

\* a handler's repository step: log the call, answer with resp
repository_step(call, name, result, resp) ==
    Return([call EXCEPT !.io = Append(@, IoEntry(name, Outcome(result), result.rows,
                                                 IF result.ok THEN None ELSE result.error.text))],
           resp)

\* ---------------------------------------------------------------- startup
\* the environments the process is started in: PORT, HOST, the scheme of
\* DATABASE_URL, and whether DB_USER and DB_PASSWORD are set
Environments ==
    [port : {"50053", "http"}, host : {"0.0.0.0", "localhost"},
     database_url : {"ws://", "wss://", "rocksdb://", "memory"},
     db_user : BOOLEAN, db_password : BOOLEAN]

\* the environment with nothing set: every variable has its default
DefaultEnvironment ==
    [port |-> "50053", host |-> "0.0.0.0", database_url |-> "rocksdb://",
     db_user |-> FALSE, db_password |-> FALSE]

\* str::parse::<u16>, on the ports above
ParsesAsPort(port) == port = "50053"

\* str::parse::<SocketAddr> of "host:port", on the hosts above: a host name
\* is no socket address
ParsesAsSocketAddr(host) == host = "0.0.0.0"

\* database_url.starts_with("ws://") || database_url.starts_with("wss://")
Networked(database_url) == database_url \in {"ws://", "wss://"}

\* the process at the first line of main
Process(env) == [env |-> env, pc |-> "from_env", log |-> <<>>, error |-> None]

\* one step of the startup that was attempted, and how it ended
Attempt(p, step, outcome) ==
    [p EXCEPT !.log = Append(@, [step |-> step, outcome |-> outcome])]

\* `?` on an Err in main: the process exits with the error
Exit(p, error) == [p EXCEPT !.pc = "exited", !.error = Some(error)]

\* a step that is Ok goes on at pc next, a step that is Err exits
Proceed(p, step, ok, next, error) ==
    IF ok THEN [Attempt(p, step, "ok") EXCEPT !.pc = next]
    ELSE Exit(Attempt(p, step, "error"), error)

\* main: Config::from_env()?
Config_from_env(p) ==
    Proceed(p, "from_env", ParsesAsPort(p.env.port), "connect", "invalid digit found in string")

\* mutant: the networked engine is used without credentials and sign-in
Database_new_connect_anonymous(p, ok) ==
    Proceed(p, "connect", ok, "use_ns", "Failed to connect to the engine")

\* the error of Database::new when the engine of the url cannot be set up
ConnectError(database_url) ==
    IF Networked(database_url) THEN "Failed to connect to SurrealDB"
    ELSE IF database_url = "rocksdb://" THEN "Failed to initialize RocksDB"
    ELSE "Failed to initialize in-memory database"

\* Database::new up to its second await: Surreal::new::<Ws | RocksDb | Mem>,
\* and for the networked engine the credentials from the environment
Database_new_connect(p, ok) ==
    LET connected == Proceed(p, "connect", ok, "use_ns", ConnectError(p.env.database_url))
    IN IF ~ok \/ ~Networked(p.env.database_url) THEN connected
       ELSE IF ~p.env.db_user
       THEN Exit(connected, "SURREAL_DB_USER environment variable is required for remote connections")
       ELSE IF ~p.env.db_password
       THEN Exit(connected, "SURREAL_DB_PASSWORD environment variable is required for remote connections")
       ELSE [connected EXCEPT !.pc = "signin"]

\* Database::new: surreal_client.signin(Root {..}).await
Database_new_signin(p, ok) ==
    Proceed(p, "signin", ok, "use_ns", "Failed to authenticate with SurrealDB")

\* Database::new: surreal_client.use_ns(..).use_db(..).await
Database_new_use(p, ok) ==
    Proceed(p, "use_ns", ok, "initialize_schema", "Failed to select namespace/database")

\* Database::initialize_schema: the match on client.query(schema_query).await
initialize_schema(answer) == answer /= "error"

\* Database::new: database.initialize_schema().await?
Database_new_initialize_schema(p, answer) ==
    IF initialize_schema(answer)
    THEN [Attempt(p, "query", answer) EXCEPT !.pc = "user_client"]
    ELSE Exit(Attempt(p, "query", answer), "Schema initialization failed")

\* main: UserClient::new(config.user_service_url).await?
UserClient_new(p, ok) ==
    Proceed(p, "user_client", ok, "post_client", "Failed to connect to user service")

\* main: PostClient::new(config.post_service_url).await?
PostClient_new(p, ok) ==
    Proceed(p, "post_client", ok, "serve", "Failed to connect to post service")

\* main: the parse of the server address, then Server::builder()..
\* .serve_with_shutdown(addr, ..) up to the bind of the listener
serve_with_shutdown(p, ok) ==
    IF ~ParsesAsSocketAddr(p.env.host)
    THEN Exit(Attempt(p, "serve", "error"), "invalid socket address syntax")
    ELSE Proceed(p, "serve", ok, "serving", "transport error")

\* the process that serves after a startup in the default environment
Started ==
    serve_with_shutdown(
        PostClient_new(
            UserClient_new(
                Database_new_initialize_schema(
                    Database_new_use(
                        Database_new_connect(
                            Config_from_env(Process(DefaultEnvironment)), TRUE),
                        TRUE),
                    "done"),
                TRUE),
            TRUE),
        TRUE)

\* ------------------------------------------------------------ the actions
Init ==
    /\ likes = {}
    /\ now = 0
    /\ nextId = 0
    /\ calls = [c \in CallIds |-> Idle]
    /\ pagination = None
    /\ startup = Started
    /\ conversion = <<>>
    /\ invocation = None
    /\ pool = None

\* a client sends LikePost
LikePostCall(c) ==
    /\ calls[c].pc = "idle"
    /\ \E req \in PairRequests :
          calls' = [calls EXCEPT ![c] = like_post_begin(req[1], req[2])]
    /\ UNCHANGED <<likes, now, nextId, pagination, startup, conversion, invocation, pool>>

LikePostUserExists(c) ==
    /\ calls[c].op = "LikePost" /\ calls[c].pc = "user_exists"
    /\ \E reply \in GetUserReplies(calls[c].user_id) :
          calls' = [calls EXCEPT ![c] = like_post_user_exists(calls[c], reply)]
    /\ UNCHANGED <<likes, now, nextId, pagination, startup, conversion, invocation, pool>>

LikePostGetUser(c) ==
    /\ calls[c].op = "LikePost" /\ calls[c].pc = "get_user"
    /\ \E reply \in GetUserReplies(calls[c].user_id) :
          calls' = [calls EXCEPT ![c] = get_user_step(calls[c], reply, "post_exists")]
    /\ UNCHANGED <<likes, now, nextId, pagination, startup, conversion, invocation, pool>>

LikePostPostExists(c) ==
    /\ calls[c].op = "LikePost" /\ calls[c].pc = "post_exists"
    /\ \E reply \in GetPostReplies :
          calls' = [calls EXCEPT ![c] = like_post_post_exists(calls[c], reply)]
    /\ UNCHANGED <<likes, now, nextId, pagination, startup, conversion, invocation, pool>>

\* mutant: the insert is checked against a table read before the call, in
\* which the pair had no row, and its row is then added to the table
LikePostCreateLike_unguarded(c) ==
    /\ calls[c].op = "LikePost" /\ calls[c].pc = "create_like"
    /\ nextId < MaxLikes
    /\ \E up \in BOOLEAN :
          LET result == create_like({}, calls[c].db_user_id, calls[c].post_id,
                                    nextId + 1, now, up)
          IN /\ likes' = likes \cup result.store
             /\ calls' = [calls EXCEPT ![c] =
                    repository_step(calls[c], "create_like", result, like_post_response(result))]
    /\ nextId' = nextId + 1
    /\ now' = now + 1
    /\ UNCHANGED <<pagination, startup, conversion, invocation, pool>>

LikePostCreateLike(c) ==
    /\ calls[c].op = "LikePost" /\ calls[c].pc = "create_like"
    /\ nextId < MaxLikes
    /\ \E up \in BOOLEAN :
          LET result == create_like(likes, calls[c].db_user_id, calls[c].post_id,
                                    nextId + 1, now, up)
          IN /\ likes' = result.store
             /\ calls' = [calls EXCEPT ![c] =
                    repository_step(calls[c], "create_like", result, like_post_response(result))]
    /\ nextId' = nextId + 1
    /\ now' = now + 1
    /\ UNCHANGED <<pagination, startup, conversion, invocation, pool>>

\* a client sends UnlikePost
UnlikePostCall(c) ==
    /\ calls[c].pc = "idle"
    /\ \E req \in PairRequests :
          calls' = [calls EXCEPT ![c] = unlike_post_begin(req[1], req[2])]
    /\ UNCHANGED <<likes, now, nextId, pagination, startup, conversion, invocation, pool>>

UnlikePostGetUser(c) ==
    /\ calls[c].op = "UnlikePost" /\ calls[c].pc = "get_user"
    /\ \E reply \in GetUserReplies(calls[c].user_id) :
          calls' = [calls EXCEPT ![c] = get_user_step(calls[c], reply, "delete_like")]
    /\ UNCHANGED <<likes, now, nextId, pagination, startup, conversion, invocation, pool>>

UnlikePostDeleteLike(c) ==
    /\ calls[c].op = "UnlikePost" /\ calls[c].pc = "delete_like"
    /\ \E up \in BOOLEAN :
          LET result == delete_like(likes, calls[c].db_user_id, calls[c].post_id, up)
          IN /\ likes' = result.store
             /\ calls' = [calls EXCEPT ![c] =
                    repository_step(calls[c], "delete_like", result, unlike_post_response(result))]
    /\ UNCHANGED <<now, nextId, pagination, startup, conversion, invocation, pool>>

\* a client sends IsPostLiked
IsPostLikedCall(c) ==
    /\ calls[c].pc = "idle"
    /\ \E req \in PairRequests :
          calls' = [calls EXCEPT ![c] = is_post_liked_begin(req[1], req[2])]
    /\ UNCHANGED <<likes, now, nextId, pagination, startup, conversion, invocation, pool>>

IsPostLikedGetUser(c) ==
    /\ calls[c].op = "IsPostLiked" /\ calls[c].pc = "get_user"
    /\ \E reply \in GetUserReplies(calls[c].user_id) :
          calls' = [calls EXCEPT ![c] = get_user_step(calls[c], reply, "is_post_liked")]
    /\ UNCHANGED <<likes, now, nextId, pagination, startup, conversion, invocation, pool>>

IsPostLikedQuery(c) ==
    /\ calls[c].op = "IsPostLiked" /\ calls[c].pc = "is_post_liked"
    /\ \E up \in BOOLEAN :
          LET result == is_post_liked(likes, calls[c].db_user_id, calls[c].post_id, up)
          IN /\ likes' = result.store
             /\ calls' = [calls EXCEPT ![c] =
                    repository_step(calls[c], "is_post_liked", result, is_post_liked_response(result))]
    /\ UNCHANGED <<now, nextId, pagination, startup, conversion, invocation, pool>>

\* a client sends GetLikesCount
GetLikesCountCall(c) ==
    /\ calls[c].pc = "idle"
    /\ \E post_id \in PostIdInputs :
          calls' = [calls EXCEPT ![c] = get_likes_count_begin(post_id)]
    /\ UNCHANGED <<likes, now, nextId, pagination, startup, conversion, invocation, pool>>

GetLikesCountQuery(c) ==
    /\ calls[c].op = "GetLikesCount" /\ calls[c].pc = "get_likes_count"
    /\ \E up \in BOOLEAN :
          LET result == get_likes_count(likes, calls[c].post_id, up)
          IN /\ likes' = result.store
             /\ calls' = [calls EXCEPT ![c] =
                    repository_step(calls[c], "get_likes_count", result, get_likes_count_response(result))]
    /\ UNCHANGED <<now, nextId, pagination, startup, conversion, invocation, pool>>

\* a client sends UnlikePosts
UnlikePostsCall(c) ==
    /\ calls[c].pc = "idle"
    /\ \E req \in ListRequests :
          calls' = [calls EXCEPT ![c] = unlike_posts_begin(req[1], req[2])]
    /\ UNCHANGED <<likes, now, nextId, pagination, startup, conversion, invocation, pool>>

UnlikePostsResolve(c) ==
    /\ calls[c].op = "UnlikePosts" /\ calls[c].pc = "resolve"
    /\ \E reply \in GetUserReplies(calls[c].user_ids[Len(calls[c].db_user_ids) + 1]) :
          calls' = [calls EXCEPT ![c] = unlike_posts_resolve(calls[c], reply)]
    /\ UNCHANGED <<likes, now, nextId, pagination, startup, conversion, invocation, pool>>

UnlikePostsDelete(c) ==
    /\ calls[c].op = "UnlikePosts" /\ calls[c].pc = "unlike_posts"
    /\ \E up \in BOOLEAN :
          LET result == unlike_posts(likes, calls[c].db_user_ids, calls[c].post_ids, up)
          IN /\ likes' = result.store
             /\ calls' = [calls EXCEPT ![c] =
                    repository_step(calls[c], "unlike_posts", result, unlike_posts_response(result))]
    /\ UNCHANGED <<now, nextId, pagination, startup, conversion, invocation, pool>>

\* a client sends GetUserLikes
GetUserLikesCall(c) ==
    /\ calls[c].pc = "idle"
    /\ \E req \in UserPageRequests :
          calls' = [calls EXCEPT ![c] = get_user_likes_begin(req[1], req[2], req[3])]
    /\ UNCHANGED <<likes, now, nextId, pagination, startup, conversion, invocation, pool>>

GetUserLikesGetUser(c) ==
    /\ calls[c].op = "GetUserLikes" /\ calls[c].pc = "get_user"
    /\ \E reply \in GetUserReplies(calls[c].user_id) :
          calls' = [calls EXCEPT ![c] = get_user_step(calls[c], reply, "count")]
    /\ UNCHANGED <<likes, now, nextId, pagination, startup, conversion, invocation, pool>>

GetUserLikesCount(c) ==
    /\ calls[c].op = "GetUserLikes" /\ calls[c].pc = "count"
    /\ \E up \in BOOLEAN :
          calls' = [calls EXCEPT ![c] =
              count_step(calls[c], "get_user_likes",
                         get_user_likes_count(likes, calls[c].db_user_id, up))]
    /\ UNCHANGED <<likes, now, nextId, pagination, startup, conversion, invocation, pool>>

GetUserLikesPage(c) ==
    /\ calls[c].op = "GetUserLikes" /\ calls[c].pc = "page"
    /\ LET params == PaginationParams_new(calls[c].page, calls[c].limit)
       IN \E offset \in PaginationParams_offset(params) : \E up \in BOOLEAN :
             LET result == get_user_likes(likes, calls[c].db_user_id, params,
                                          calls[c].total_count, offset.value, up)
             IN calls' = [calls EXCEPT ![c] =
                    IF offset.panic THEN Panicked(calls[c])
                    ELSE repository_step(calls[c], "get_user_likes", result,
                                         get_user_likes_response(result))]
    /\ UNCHANGED <<likes, now, nextId, pagination, startup, conversion, invocation, pool>>

\* a client sends GetPostLikes
GetPostLikesCall(c) ==
    /\ calls[c].pc = "idle"
    /\ \E req \in PostPageRequests :
          calls' = [calls EXCEPT ![c] = get_post_likes_begin(req[1], req[2], req[3])]
    /\ UNCHANGED <<likes, now, nextId, pagination, startup, conversion, invocation, pool>>

GetPostLikesCount(c) ==
    /\ calls[c].op = "GetPostLikes" /\ calls[c].pc = "count"
    /\ \E up \in BOOLEAN :
          calls' = [calls EXCEPT ![c] =
              count_step(calls[c], "get_post_likes",
                         get_post_likes_count(likes, calls[c].post_id, up))]
    /\ UNCHANGED <<likes, now, nextId, pagination, startup, conversion, invocation, pool>>

GetPostLikesPage(c) ==
    /\ calls[c].op = "GetPostLikes" /\ calls[c].pc = "page"
    /\ LET params == PaginationParams_new(calls[c].page, calls[c].limit)
       IN \E offset \in PaginationParams_offset(params) : \E up \in BOOLEAN :
             LET result == get_post_likes(likes, calls[c].post_id, params,
                                          calls[c].total_count, offset.value, up)
             IN calls' = [calls EXCEPT ![c] =
                    IF offset.panic THEN Panicked(calls[c])
                    ELSE repository_step(calls[c], "get_post_likes", result,
                                         get_post_likes_response(result))]
    /\ UNCHANGED <<likes, now, nextId, pagination, startup, conversion, invocation, pool>>

\* a client sends HealthCheck
HealthCheckCall(c) ==
    /\ calls[c].pc = "idle"
    /\ calls' = [calls EXCEPT ![c] = [Idle EXCEPT !.op = "HealthCheck", !.pc = "health_check"]]
    /\ UNCHANGED <<likes, now, nextId, pagination, startup, conversion, invocation, pool>>

HealthCheckQuery(c) ==
    /\ calls[c].op = "HealthCheck" /\ calls[c].pc = "health_check"
    /\ \E answer \in QueryAnswers :
          LET result == health_check(likes, answer)
          IN calls' = [calls EXCEPT ![c] =
                 health_check_step(calls[c], answer, result, health_check_response(result, now))]
    /\ UNCHANGED <<likes, now, nextId, pagination, startup, conversion, invocation, pool>>

\* a client sends an operation of the RPC surface the service has no
\* method for: the server answers it with the unimplemented status
UnimplementedCall(c) ==
    /\ calls[c].pc = "idle"
    /\ \E op \in RpcSurface \ LikesServiceMethods :
          calls' = [calls EXCEPT ![c] =
              Return([Idle EXCEPT !.op = op, !.post_ids = <<1, 2>>],
                     Response("unimplemented", ""))]
    /\ UNCHANGED <<likes, now, nextId, pagination, startup, conversion, invocation, pool>>

\* the response has gone to the client: the slot is free again
Respond(c) ==
    /\ calls[c].pc = "done"
    /\ calls' = [calls EXCEPT ![c] = Idle]
    /\ UNCHANGED <<likes, now, nextId, pagination, startup, conversion, invocation, pool>>

Next ==
    \/ \E c \in CallIds : LikePostCall(c)
    \/ \E c \in CallIds : LikePostUserExists(c)
    \/ \E c \in CallIds : LikePostGetUser(c)
    \/ \E c \in CallIds : LikePostPostExists(c)
    \/ \E c \in CallIds : LikePostCreateLike(c)
    \/ \E c \in CallIds : UnlikePostCall(c)
    \/ \E c \in CallIds : UnlikePostGetUser(c)
    \/ \E c \in CallIds : UnlikePostDeleteLike(c)
    \/ \E c \in CallIds : IsPostLikedCall(c)
    \/ \E c \in CallIds : IsPostLikedGetUser(c)
    \/ \E c \in CallIds : IsPostLikedQuery(c)
    \/ \E c \in CallIds : GetLikesCountCall(c)
    \/ \E c \in CallIds : GetLikesCountQuery(c)
    \/ \E c \in CallIds : UnlikePostsCall(c)
    \/ \E c \in CallIds : UnlikePostsResolve(c)
    \/ \E c \in CallIds : UnlikePostsDelete(c)
    \/ \E c \in CallIds : GetUserLikesCall(c)
    \/ \E c \in CallIds : GetUserLikesGetUser(c)
    \/ \E c \in CallIds : GetUserLikesCount(c)
    \/ \E c \in CallIds : GetUserLikesPage(c)
    \/ \E c \in CallIds : GetPostLikesCall(c)
    \/ \E c \in CallIds : GetPostLikesCount(c)
    \/ \E c \in CallIds : GetPostLikesPage(c)
    \/ \E c \in CallIds : HealthCheckCall(c)
    \/ \E c \in CallIds : HealthCheckQuery(c)
    \/ \E c \in CallIds : UnimplementedCall(c)
    \/ \E c \in CallIds : Respond(c)

Spec == Init /\ [][Next]_vars

\* ------------------------------------------- the pagination values on their own
\* PaginationParams and PaginatedResult as functions of their inputs: a
\* page and a limit as a client sends them, a total count as the store
\* answers it
PaginationInit ==
    /\ likes = {}
    /\ now = 0
    /\ nextId = 0
    /\ calls = [c \in CallIds |-> Idle]
    /\ startup = Started
    /\ conversion = <<>>
    /\ pagination \in
          {[page |-> page, limit |-> limit, total_count |-> total_count,
            params |-> None, offset |-> None, result |-> None] :
              page \in I32Inputs, limit \in I32Inputs, total_count \in CountInputs}
    /\ invocation = None
    /\ pool = None

\* PaginationParams::new(page, limit)
NewParams ==
    /\ pagination.params = None
    /\ pagination' = [pagination EXCEPT
           !.params = Some(PaginationParams_new(pagination.page, pagination.limit))]
    /\ UNCHANGED <<likes, now, nextId, calls, startup, conversion, invocation, pool>>

\* params.offset()
Offset ==
    /\ pagination.params /= None /\ pagination.offset = None
    /\ \E offset \in PaginationParams_offset(pagination.params[1]) :
          pagination' = [pagination EXCEPT !.offset = Some(offset)]
    /\ UNCHANGED <<likes, now, nextId, calls, startup, conversion, invocation, pool>>

\* PaginatedResult::new(data, total_count, &params)
NewResult ==
    /\ pagination.params /= None /\ pagination.result = None
    /\ pagination' = [pagination EXCEPT
           !.result = Some(PaginatedResult_new(<<>>, pagination.total_count, pagination.params[1]))]
    /\ UNCHANGED <<likes, now, nextId, calls, startup, conversion, invocation, pool>>

PaginationNext == NewParams \/ Offset \/ NewResult

PaginationSpec == PaginationInit /\ [][PaginationNext]_vars

\* ------------------------------------- the paginated reads of a store at rest
\* the (user_id, post_id) pairs of the likes in a store that is read
ReadPairs == {<<"u1", 1>>, <<"u1", 2>>, <<"u1", 3>>, <<"u2", 2>>, <<"u0", 2>>}

\* number of likes in a store that is read
MaxStored == 3

\* the stores likes and unlikes leave behind: at most one like per pair, the
\* likes made one after the other in any order of the pairs
Stores ==
    {store \in SUBSET {Like_new(pair[1], pair[2], id, id - 1) :
                          pair \in ReadPairs, id \in 1..MaxStored} :
        /\ {l.id : l \in store} = 1..Cardinality(store)
        /\ \A l \in store : \A m \in store :
              (l.user_id = m.user_id /\ l.post_id = m.post_id) => l = m}

\* the (user_id, page, limit) requests clients send to read a user's likes
UserPageInputs == {<<"e1", page, 2>> : page \in 1..3} \cup {<<"e1", 2, 1>>}

\* the (post_id, page, limit) requests clients send to read a post's likes
PostPageInputs ==
    {<<2, page, 2>> : page \in 1..3} \cup {<<2, 21474838, 100>>}

ReadInit ==
    /\ likes \in Stores
    /\ now = Cardinality(likes)
    /\ nextId = Cardinality(likes)
    /\ calls = [c \in CallIds |-> Idle]
    /\ pagination = None
    /\ startup = Started
    /\ conversion = <<>>
    /\ invocation = None
    /\ pool = None

\* a client sends GetUserLikes for one of the pages of the store
ReadUserLikesCall(c) ==
    /\ calls[c].pc = "idle"
    /\ \E req \in UserPageInputs :
          calls' = [calls EXCEPT ![c] = get_user_likes_begin(req[1], req[2], req[3])]
    /\ UNCHANGED <<likes, now, nextId, pagination, startup, conversion, invocation, pool>>

\* a client sends GetPostLikes for one of the pages of the store
ReadPostLikesCall(c) ==
    /\ calls[c].pc = "idle"
    /\ \E req \in PostPageInputs :
          calls' = [calls EXCEPT ![c] = get_post_likes_begin(req[1], req[2], req[3])]
    /\ UNCHANGED <<likes, now, nextId, pagination, startup, conversion, invocation, pool>>

ReadNext ==
    \/ \E c \in CallIds : ReadUserLikesCall(c)
    \/ \E c \in CallIds : GetUserLikesGetUser(c)
    \/ \E c \in CallIds : GetUserLikesCount(c)
    \/ \E c \in CallIds : GetUserLikesPage(c)
    \/ \E c \in CallIds : ReadPostLikesCall(c)
    \/ \E c \in CallIds : GetPostLikesCount(c)
    \/ \E c \in CallIds : GetPostLikesPage(c)
    \/ \E c \in CallIds : Respond(c)

ReadSpec == ReadInit /\ [][ReadNext]_vars

\* ------------------------------------------------------- the startup of main
\* the process from its first line to the serving of requests, in every
\* environment, with every outcome of the storage and of the collaborators
StartupInit ==
    /\ likes = {}
    /\ now = 0
    /\ nextId = 0
    /\ calls = [c \in CallIds |-> Idle]
    /\ pagination = None
    /\ conversion = <<>>
    /\ startup \in {Process(env) : env \in Environments}
    /\ invocation = None
    /\ pool = None

MainFromEnv ==
    /\ startup.pc = "from_env"
    /\ startup' = Config_from_env(startup)
    /\ UNCHANGED <<likes, now, nextId, calls, pagination, conversion, invocation, pool>>

DatabaseNewConnect ==
    /\ startup.pc = "connect"
    /\ \E ok \in BOOLEAN : startup' = Database_new_connect(startup, ok)
    /\ UNCHANGED <<likes, now, nextId, calls, pagination, conversion, invocation, pool>>

DatabaseNewSignin ==
    /\ startup.pc = "signin"
    /\ \E ok \in BOOLEAN : startup' = Database_new_signin(startup, ok)
    /\ UNCHANGED <<likes, now, nextId, calls, pagination, conversion, invocation, pool>>

DatabaseNewUse ==
    /\ startup.pc = "use_ns"
    /\ \E ok \in BOOLEAN : startup' = Database_new_use(startup, ok)
    /\ UNCHANGED <<likes, now, nextId, calls, pagination, conversion, invocation, pool>>

DatabaseNewInitializeSchema ==
    /\ startup.pc = "initialize_schema"
    /\ \E answer \in QueryAnswers : startup' = Database_new_initialize_schema(startup, answer)
    /\ UNCHANGED <<likes, now, nextId, calls, pagination, conversion, invocation, pool>>

MainUserClient ==
    /\ startup.pc = "user_client"
    /\ \E ok \in BOOLEAN : startup' = UserClient_new(startup, ok)
    /\ UNCHANGED <<likes, now, nextId, calls, pagination, conversion, invocation, pool>>

MainPostClient ==
    /\ startup.pc = "post_client"
    /\ \E ok \in BOOLEAN : startup' = PostClient_new(startup, ok)
    /\ UNCHANGED <<likes, now, nextId, calls, pagination, conversion, invocation, pool>>

MainServe ==
    /\ startup.pc = "serve"
    /\ \E ok \in BOOLEAN : startup' = serve_with_shutdown(startup, ok)
    /\ UNCHANGED <<likes, now, nextId, calls, pagination, conversion, invocation, pool>>

\* the server, once it serves, takes a call of a client
Accept(c) ==
    /\ startup.pc = "serving"
    /\ HealthCheckCall(c)

StartupNext ==
    \/ MainFromEnv
    \/ DatabaseNewConnect
    \/ DatabaseNewSignin
    \/ DatabaseNewUse
    \/ DatabaseNewInitializeSchema
    \/ MainUserClient
    \/ MainPostClient
    \/ MainServe
    \/ \E c \in CallIds : Accept(c)
    \/ \E c \in CallIds : HealthCheckQuery(c)
    \/ \E c \in CallIds : Respond(c)

StartupSpec == StartupInit /\ [][StartupNext]_vars

\* --------------------------------------------- the error conversion on its own
\* the messages the service and the repository put into a LikesError
ErrorMessages ==
    {"User ID cannot be empty", "Post ID must be a positive integer",
     "User has already liked this post", "Failed to create like",
     "At least one of user_ids or post_ids must be provided"}

\* the texts of the errors the backend gives
BackendTexts ==
    {IndexExistsText, ConnectionText, DeserializeText, NotExecutedText, InvalidStartText}

\* the LikesError values: the kinds with a message, the kinds that wrap an
\* error of the backend
ErrorInputs ==
    {LikesError(kind, msg, None) :
        kind \in {"InvalidInput", "NotFound", "AlreadyExists", "Internal"}, msg \in ErrorMessages}
    \cup {LikesError(kind, "", text) : kind \in {"Database", "Serialization"}, text \in BackendTexts}

\* number of conversions followed in one run
MaxConversions == 2

StatusInit ==
    /\ likes = {}
    /\ now = 0
    /\ nextId = 0
    /\ calls = [c \in CallIds |-> Idle]
    /\ pagination = None
    /\ startup = Started
    /\ conversion = <<>>
    /\ invocation = None
    /\ pool = None

\* Status::from(error), for a LikesError a handler got
IntoStatus ==
    /\ Len(conversion) < MaxConversions
    /\ \E error \in ErrorInputs :
          conversion' = Append(conversion, [error |-> error, status |-> StatusFrom(error)])
    /\ UNCHANGED <<likes, now, nextId, calls, pagination, startup, invocation, pool>>

StatusNext == IntoStatus

StatusSpec == StatusInit /\ [][StatusNext]_vars

\* ------------------------------------------- the mutations of the repository
\* create_like and delete_like called on their own, on every store and with
\* every argument, the empty user id and the post id zero among them
RepositoryUserIds == {"", "u1", "u2"}

\* the Responses an engine can hand to create_like for one CREATE: the row
\* created, no row, or the statement's error
CreateAnswers(store, row) ==
    {Answer(store \cup {row}, None, <<row>>), Answer(store, None, <<>>),
     Answer(store, Some(IndexExistsText), <<>>)}

RepositoryInit ==
    /\ likes \in Stores
    /\ now = Cardinality(likes)
    /\ nextId = Cardinality(likes)
    /\ calls = [c \in CallIds |-> Idle]
    /\ pagination = None
    /\ startup = Started
    /\ conversion = <<>>
    /\ invocation = None
    /\ pool = None

\* repository.create_like(user_id, post_id)
CreateLike ==
    /\ invocation = None
    /\ \E user_id \in RepositoryUserIds : \E post_id \in PostIdInputs : \E up \in BOOLEAN :
          LET result == create_like(likes, user_id, post_id, nextId + 1, now, up)
          IN /\ likes' = result.store
             /\ nextId' = IF create_like_valid(user_id, post_id) THEN nextId + 1 ELSE nextId
             /\ invocation' = [call |-> "create_like", user_id |-> user_id, post_id |-> post_id,
                               up |-> up, before |-> likes, result |-> result]
    /\ now' = now + 1
    /\ UNCHANGED <<calls, pagination, startup, conversion, pool>>

\* the end of create_like, on each Response
CreateLikeTake ==
    /\ invocation = None
    /\ \E pair \in ReadPairs :
       \E answer \in CreateAnswers(likes, Like_new(pair[1], pair[2], nextId + 1, now)) :
          LET result == create_like_take(answer)
          IN /\ likes' = result.store
             /\ invocation' = [call |-> "create_like_take", answer |-> answer,
                               before |-> likes, result |-> result]
    /\ nextId' = nextId + 1
    /\ now' = now + 1
    /\ UNCHANGED <<calls, pagination, startup, conversion, pool>>

\* repository.delete_like(user_id, post_id)
DeleteLike ==
    /\ invocation = None
    /\ \E user_id \in RepositoryUserIds : \E post_id \in PostIdInputs : \E up \in BOOLEAN :
          LET result == delete_like(likes, user_id, post_id, up)
          IN /\ likes' = result.store
             /\ invocation' = [call |-> "delete_like", user_id |-> user_id, post_id |-> post_id,
                               up |-> up, before |-> likes, result |-> result]
    /\ UNCHANGED <<now, nextId, calls, pagination, startup, conversion, pool>>

RepositoryNext == CreateLike \/ CreateLikeTake \/ DeleteLike

RepositorySpec == RepositoryInit /\ [][RepositoryNext]_vars

\* ------------------------------------------- two calls racing for one pair
\* the request both calls send: one user, one post
RacePair == <<"e1", 1>>

\* the stores the race starts on: the pair not liked, or liked by a record
\* that was stored before the service came up
RaceStores == {{}, {Like_new(CanonicalId(RacePair[1]), RacePair[2], 0, 0)}}

RaceInit ==
    /\ likes \in RaceStores
    /\ now = Cardinality(likes)
    /\ nextId = 0
    /\ calls = [c \in CallIds |-> Idle]
    /\ pagination = None
    /\ startup = Started
    /\ conversion = <<>>
    /\ invocation = None
    /\ pool = None

\* a client sends LikePost for the pair
RaceLikePostCall(c) ==
    /\ calls[c].pc = "idle"
    /\ calls' = [calls EXCEPT ![c] = like_post_begin(RacePair[1], RacePair[2])]
    /\ UNCHANGED <<likes, now, nextId, pagination, startup, conversion, invocation, pool>>

\* a client sends UnlikePost for the pair
RaceUnlikePostCall(c) ==
    /\ calls[c].pc = "idle"
    /\ calls' = [calls EXCEPT ![c] = unlike_post_begin(RacePair[1], RacePair[2])]
    /\ UNCHANGED <<likes, now, nextId, pagination, startup, conversion, invocation, pool>>

\* each slot takes one call, and the steps of the two calls interleave
RaceNext ==
    \/ \E c \in CallIds : RaceLikePostCall(c)
    \/ \E c \in CallIds : LikePostUserExists(c)
    \/ \E c \in CallIds : LikePostGetUser(c)
    \/ \E c \in CallIds : LikePostPostExists(c)
    \/ \E c \in CallIds : LikePostCreateLike(c)
    \/ \E c \in CallIds : RaceUnlikePostCall(c)
    \/ \E c \in CallIds : UnlikePostGetUser(c)
    \/ \E c \in CallIds : UnlikePostDeleteLike(c)

RaceSpec == RaceInit /\ [][RaceNext]_vars

\* ------------------------------------------------- the client pools
\* number of service URLs a pool is built from
MaxClients == 4

\* number of get_client calls on one pool
MaxCalls == 9

\* the two pools: UserClientPool and PostClientPool
PoolKinds == {"user", "post"}

\* the error of a construction without URL
NoUrlsError(kind) ==
    IF kind = "user" THEN "No user service URLs provided" ELSE "No post service URLs provided"

\* the error of UserClient::new / PostClient::new for a service out of reach
ClientConnectError(kind) ==
    IF kind = "user" THEN "Failed to connect to user service"
    ELSE "Failed to connect to post service"

\* a construction under way: Pool::new(service_urls) before its loop; of
\* the URLs only their number counts, and the clients are named by their
\* index in the Vec
PoolUnderWay(kind, n) ==
    [kind |-> kind, service_urls |-> n, pc |-> "new", clients |-> <<>>,
     current_index |-> 0, handed |-> <<>>, error |-> None]

\* Pool::new, one turn of the loop: Client::new(url).await?, clients.push
Pool_new_push(p, ok) ==
    IF ok THEN [p EXCEPT !.clients = Append(@, Len(@))]
    ELSE [p EXCEPT !.pc = "failed", !.error = Some(ClientConnectError(p.kind))]

\* Pool::new after the loop: the check for no client, then Ok(Self { .. })
Pool_new_finish(p) ==
    IF p.clients = <<>> THEN [p EXCEPT !.pc = "failed", !.error = Some(NoUrlsError(p.kind))]
    ELSE [p EXCEPT !.pc = "ready", !.current_index = 0]

\* mutant: the index is moved on without wrapping
get_client_unwrapped(p) ==
    LET index == p.current_index
        next_index == index + 1
    IN [p EXCEPT !.current_index = next_index, !.handed = Append(@, index)]

\* Pool::get_client: load, store (index + 1) % len, &mut clients[index]
get_client(p) ==
    LET index == p.current_index
        next_index == (index + 1) % Len(p.clients)
    IN [p EXCEPT !.current_index = next_index, !.handed = Append(@, index)]

PoolInit ==
    /\ likes = {}
    /\ now = 0
    /\ nextId = 0
    /\ calls = [c \in CallIds |-> Idle]
    /\ pagination = None
    /\ startup = Started
    /\ conversion = <<>>
    /\ invocation = None
    /\ pool \in {PoolUnderWay(kind, n) : kind \in PoolKinds, n \in 0..MaxClients}

\* Pool::new connects the next URL
PoolNewPush ==
    /\ pool.pc = "new" /\ Len(pool.clients) < pool.service_urls
    /\ \E ok \in BOOLEAN : pool' = Pool_new_push(pool, ok)
    /\ UNCHANGED <<likes, now, nextId, calls, pagination, startup, conversion, invocation>>

\* Pool::new returns
PoolNewFinish ==
    /\ pool.pc = "new" /\ Len(pool.clients) = pool.service_urls
    /\ pool' = Pool_new_finish(pool)
    /\ UNCHANGED <<likes, now, nextId, calls, pagination, startup, conversion, invocation>>

\* pool.get_client()
GetClient ==
    /\ pool.pc = "ready" /\ Len(pool.handed) < MaxCalls
    /\ pool' = get_client(pool)
    /\ UNCHANGED <<likes, now, nextId, calls, pagination, startup, conversion, invocation>>

PoolNext == PoolNewPush \/ PoolNewFinish \/ GetClient

PoolSpec == PoolInit /\ [][PoolNext]_vars

\* ------------------------------------------------------------- the claims
\* the last downstream request of a call
LastIo(call) == call.io[Len(call.io)]

\* the rows of a store that hold the pair (user_id, post_id)
RowsOf(store, user_id, post_id) ==
    {l \in store : l.user_id = user_id /\ l.post_id = post_id}

\* call c takes the step that leaves pc and ends the call, and the storage
\* statement of that step reached the engine
RepositoryStep(c, op, pc) ==
    /\ calls[c].op = op /\ calls[c].pc = pc
    /\ calls'[c].pc = "done"
    /\ LastIo(calls'[c]).text /= ConnectionText

\* call c is a finished op whose last downstream request was the repository
\* call named, with a statement that reached the engine
Finished(c, op, name) ==
    /\ calls[c].op = op /\ calls[c].pc = "done"
    /\ calls[c].io /= <<>>
    /\ LastIo(calls[c]).call = name
    /\ LastIo(calls[c]).text /= ConnectionText

\* C1: in every reachable state, whatever LikePost, UnlikePost and
\* UnlikePosts calls have run and however they interleaved, the store holds
\* at most one Like for each (user_id, post_id) pair.
C1_AtMostOneLikePerPair ==
    \A l1 \in likes : \A l2 \in likes :
        (l1.user_id = l2.user_id /\ l1.post_id = l2.post_id) => l1 = l2

\* C1 witness: two LikePost calls for the same pair have both issued their
\* insert, one was let in and the other turned down by the unique index.
C1_Witness ==
    \E c1 \in CallIds : \E c2 \in CallIds :
        /\ Finished(c1, "LikePost", "create_like") /\ LastIo(calls[c1]).rows = 1
        /\ Finished(c2, "LikePost", "create_like")
        /\ LastIo(calls[c2]).text = IndexExistsText
        /\ calls[c1].db_user_id = calls[c2].db_user_id
        /\ calls[c1].post_id = calls[c2].post_id
        /\ Cardinality(RowsOf(likes, calls[c1].db_user_id, calls[c1].post_id)) = 1

\* C2: of two LikePost calls for the same pair that are in flight together
\* and both issue the insert, the one whose row is let in answers
\* success=true with liked_at, the one the unique index turns down answers
\* the already-exists status, and exactly one row for the pair exists.
C2_LoserAlreadyExists ==
    \A c1 \in CallIds : \A c2 \in CallIds :
        ( /\ c1 /= c2
          /\ Finished(c1, "LikePost", "create_like") /\ LastIo(calls[c1]).rows = 1
          /\ Finished(c2, "LikePost", "create_like") /\ LastIo(calls[c2]).rows = 0
          /\ calls[c1].user_id = calls[c2].user_id
          /\ calls[c1].post_id = calls[c2].post_id )
        => /\ calls[c1].resp.code = "ok" /\ calls[c1].resp.success
           /\ calls[c1].resp.liked_at /= None
           /\ calls[c2].resp.code = "already_exists"
           /\ Cardinality(RowsOf(likes, calls[c1].db_user_id, calls[c1].post_id)) = 1

\* C3: a LikePost whose insert runs while the store holds a like for the
\* pair (a first LikePost succeeded and no unlike followed) answers the
\* already-exists status and adds no row.
C3_SecondLikeAlreadyExists ==
    [][\A c \in CallIds :
          ( /\ RepositoryStep(c, "LikePost", "create_like")
            /\ RowsOf(likes, calls[c].db_user_id, calls[c].post_id) /= {} )
          => /\ calls'[c].resp.code = "already_exists"
             /\ likes' = likes]_vars

\* C4: LikePost answers the liked_at of the row it stored, and IsPostLiked
\* answers is_liked=true with that same liked_at while the row is there, and
\* is_liked=false with no liked_at and no error when the pair has no like.
C4_RoundTrip ==
    [][\A c \in CallIds :
          /\ ( /\ RepositoryStep(c, "LikePost", "create_like")
               /\ calls'[c].resp.success )
             => \E l \in RowsOf(likes', calls[c].db_user_id, calls[c].post_id) :
                    calls'[c].resp.liked_at = Some(datetime_to_timestamp(l.liked_at))
          /\ RepositoryStep(c, "IsPostLiked", "is_post_liked")
             => /\ calls'[c].resp.code = "ok"
                /\ \A l \in RowsOf(likes, calls[c].db_user_id, calls[c].post_id) :
                      /\ calls'[c].resp.is_liked
                      /\ calls'[c].resp.liked_at = Some(datetime_to_timestamp(l.liked_at))
                /\ RowsOf(likes, calls[c].db_user_id, calls[c].post_id) = {}
                      => /\ ~calls'[c].resp.is_liked
                         /\ calls'[c].resp.liked_at = None]_vars

\* C5: delete_like answers true exactly when the store held a like for the
\* pair, which is then removed: UnlikePost answers success=true
\* 'Post unliked successfully' then, success=false otherwise, and the pair
\* has no like afterwards.
C5_DeleteReportsWhetherDeleted ==
    [][\A c \in CallIds :
          RepositoryStep(c, "UnlikePost", "delete_like")
          => /\ calls'[c].resp.code = "ok"
             /\ calls'[c].resp.success
                    = (RowsOf(likes, calls[c].db_user_id, calls[c].post_id) /= {})
             /\ calls'[c].resp.success
                    => calls'[c].resp.message = "Post unliked successfully"
             /\ RowsOf(likes', calls[c].db_user_id, calls[c].post_id) = {}]_vars

\* C6: an UnlikePost whose delete runs while the store holds no like for the
\* pair answers the response success=false 'Like not found' with the OK
\* status and leaves the store as it was; and after any UnlikePost delete
\* the pair has no like, so a repetition finds none.
C6_IdempotentUnlike ==
    [][\A c \in CallIds :
          RepositoryStep(c, "UnlikePost", "delete_like")
          => /\ RowsOf(likes', calls[c].db_user_id, calls[c].post_id) = {}
             /\ RowsOf(likes, calls[c].db_user_id, calls[c].post_id) = {}
                    => /\ calls'[c].resp.code = "ok"
                       /\ ~calls'[c].resp.success
                       /\ calls'[c].resp.message = "Like not found"
                       /\ likes' = likes]_vars

\* C6 witness: an UnlikePost for a pair without a like has answered.
C6_Witness ==
    \E c \in CallIds :
        /\ Finished(c, "UnlikePost", "delete_like")
        /\ LastIo(calls[c]).outcome = "Ok" /\ LastIo(calls[c]).rows = 0
        /\ calls[c].resp.message = "Like not found"

\* C7: the bulk unlike removes exactly the likes whose user_id is in
\* user_ids (when that list is not empty) and whose post_id is in post_ids
\* (when that list is not empty), and no other like.
C7_BulkUnlikeAnd ==
    [][\A c \in CallIds :
          RepositoryStep(c, "UnlikePosts", "unlike_posts")
          => likes' = {l \in likes :
                ~( /\ calls[c].db_user_ids /= <<>> => l.user_id \in Range(calls[c].db_user_ids)
                   /\ calls[c].post_ids /= <<>> => l.post_id \in Range(calls[c].post_ids) )}]_vars

\* C7 witness: with likes (u1,p1) and (u2,p2), UnlikePosts(user_ids=[u1],
\* post_ids=[p2]) has run and removed neither.
C7_Witness ==
    \E c \in CallIds :
        /\ Finished(c, "UnlikePosts", "unlike_posts")
        /\ calls[c].db_user_ids = <<"u1">> /\ calls[c].post_ids = <<2>>
        /\ LastIo(calls[c]).outcome = "Ok" /\ LastIo(calls[c]).rows = 0
        /\ RowsOf(likes, "u1", 1) /= {} /\ RowsOf(likes, "u2", 2) /= {}

\* C8: a GetLikesCountBulk call is answered with the OK status and a map
\* that holds every requested post id with its current like count, 0 for
\* the ids without likes.
C8_BulkCountComplete ==
    \A c \in CallIds :
        (calls[c].op = "GetLikesCountBulk" /\ calls[c].pc = "done")
        => /\ calls[c].resp.code = "ok"
           /\ "counts" \in DOMAIN calls[c].resp
           /\ calls[c].resp.counts =
                 [p \in Range(calls[c].post_ids) |->
                     Cardinality({l \in likes : l.post_id = p})]

\* C9: GetLikesCount for a positive post id answers the number of Like
\* records the store holds for that post when the count runs, and answers
\* 0 with the OK status when the post has no likes.
C9_CountIsLive ==
    [][\A c \in CallIds :
          RepositoryStep(c, "GetLikesCount", "get_likes_count")
          => /\ calls'[c].resp.code = "ok"
             /\ calls'[c].resp.count
                    = Cardinality({l \in likes : l.post_id = calls[c].post_id})]_vars

\* C9 witness: a count of two likes has been answered, and a count of none.
C9_Witness ==
    \E c1 \in CallIds : \E c2 \in CallIds :
        /\ Finished(c1, "GetLikesCount", "get_likes_count") /\ calls[c1].resp.count = 2
        /\ Finished(c2, "GetLikesCount", "get_likes_count")
        /\ calls[c2].resp.code = "ok" /\ calls[c2].resp.count = 0

\* C10: when the user existence check of LikePost reports absence, or the
\* post existence check does, the call answers the OK status with
\* success=false, 'User not found' / 'Post not found' and no liked_at, it
\* issues no insert and the store is as it was.
C10_SoftFail ==
    [][\A c \in CallIds :
          ( /\ calls[c].op = "LikePost" /\ calls'[c].pc = "done"
            /\ calls[c].pc \in {"user_exists", "post_exists"}
            /\ LastIo(calls'[c]).outcome = "false" )
          => /\ calls'[c].resp.code = "ok"
             /\ ~calls'[c].resp.success
             /\ calls'[c].resp.message
                    = (IF calls[c].pc = "user_exists" THEN "User not found" ELSE "Post not found")
             /\ calls'[c].resp.liked_at = None
             /\ \A i \in 1..Len(calls'[c].io) : calls'[c].io[i].call /= "create_like"
             /\ likes' = likes]_vars

\* C10 witness: a LikePost has answered 'Post not found' after its user was
\* found, while another has answered 'User not found'.
C10_Witness ==
    \E c1 \in CallIds : \E c2 \in CallIds :
        /\ calls[c1].op = "LikePost" /\ calls[c1].pc = "done"
        /\ calls[c1].resp.message = "Post not found" /\ Len(calls[c1].io) = 3
        /\ calls[c2].op = "LikePost" /\ calls[c2].pc = "done"
        /\ calls[c2].resp.message = "User not found" /\ Len(calls[c2].io) = 1

\* the downstream requests of the like flow, in the order of the code
LikeFlow == <<"user_exists", "get_user", "post_exists", "create_like">>

\* the outcomes with which a step of the like flow lets the next one run
Positive == {"true", "some"}

\* C11: within a LikePost call the downstream requests are issued in the
\* order user existence check, user fetch, post existence check, createLike,
\* none of them when the input is not valid; a request is issued only after
\* every earlier one answered positively (true, a user record, true), and a
\* call whose last request failed or reported absence has ended.
C11_LikeFlowOrder ==
    \A c \in CallIds :
        calls[c].op = "LikePost" =>
            LET io == calls[c].io IN
            /\ Len(io) <= Len(LikeFlow)
            /\ \A i \in 1..Len(io) : io[i].call = LikeFlow[i]
            /\ \A i \in 1..(Len(io) - 1) : io[i].outcome \in Positive
            /\ ~validate_ids(calls[c].user_id, calls[c].post_id).ok
                  => (io = <<>> /\ calls[c].pc = "done")
            /\ calls[c].pc /= "done" => calls[c].pc = LikeFlow[Len(io) + 1]
            /\ (io /= <<>> /\ LastIo(calls[c]).outcome \notin Positive) => calls[c].pc = "done"

\* C11 witness: one LikePost has gone through all four requests and stored
\* its like, while another one ended at the user fetch that gave no record.
C11_Witness ==
    \E c1 \in CallIds : \E c2 \in CallIds :
        /\ calls[c1].op = "LikePost" /\ Len(calls[c1].io) = 4
        /\ LastIo(calls[c1]).outcome = "Ok"
        /\ calls[c2].op = "LikePost" /\ Len(calls[c2].io) = 2
        /\ LastIo(calls[c2]).outcome = "none" /\ calls[c2].pc = "done"

\* the canonical ids of a list of caller-supplied ids
Canonical(ids) == [i \in 1..Len(ids) |-> CanonicalId(ids[i])]

\* C12: the row LikePost stores carries the canonical id the user fetch
\* gave for the caller's id, not the caller's id; UnlikePost, IsPostLiked,
\* GetUserLikes and UnlikePosts address the store with the ids resolved the
\* same way: the delete removes the rows of the canonical pair, IsPostLiked
\* answers "not liked" exactly when the canonical pair has no row, the
\* listing counts and lists the rows of the canonical user, the bulk delete
\* matches on the canonical ids. So a like made through e is listed and
\* removed through e.
C12_CanonicalIds ==
    [][\A c \in CallIds :
          LET u == CanonicalId(calls[c].user_id)
              p == calls[c].post_id
              ofUser == {l \in likes : l.user_id = u}
          IN
          /\ RepositoryStep(c, "LikePost", "create_like")
                => \A l \in likes' \ likes :
                      l.user_id = u /\ l.user_id /= calls[c].user_id /\ l.post_id = p
          /\ RepositoryStep(c, "UnlikePost", "delete_like")
                => likes' = likes \ RowsOf(likes, u, p)
          /\ RepositoryStep(c, "IsPostLiked", "is_post_liked")
                => ((calls'[c].resp.code = "ok" /\ ~calls'[c].resp.is_liked)
                        <=> RowsOf(likes, u, p) = {})
          /\ (calls[c].op = "GetUserLikes" /\ calls[c].pc = "count" /\ calls'[c].pc = "page")
                => calls'[c].total_count = Cardinality(ofUser)
          /\ RepositoryStep(c, "GetUserLikes", "page")
                => /\ calls'[c].resp.code = "ok"
                   /\ \A i \in 1..Len(calls'[c].resp.likes) :
                         \E l \in ofUser : l.post_id = calls'[c].resp.likes[i].post_id
                   /\ (calls[c].page <= 1 /\ ofUser /= {}) => calls'[c].resp.likes /= <<>>
          /\ RepositoryStep(c, "UnlikePosts", "unlike_posts")
                => /\ calls[c].db_user_ids = Canonical(calls[c].user_ids)
                   /\ likes' = {l \in likes :
                         ~( /\ calls[c].user_ids /= <<>>
                                  => l.user_id \in Range(Canonical(calls[c].user_ids))
                            /\ calls[c].post_ids /= <<>>
                                  => l.post_id \in Range(calls[c].post_ids) )}]_vars

\* C12 witness: an UnlikePost through e1 has removed the row of (u1, p)
\* that a LikePost through e1 had stored, and a GetUserLikes through e1 has
\* listed it before.
C12_Witness ==
    \E c1 \in CallIds : \E c2 \in CallIds :
        /\ Finished(c1, "UnlikePost", "delete_like") /\ LastIo(calls[c1]).rows = 1
        /\ calls[c1].user_id = "e1" /\ calls[c1].db_user_id = "u1"
        /\ Finished(c2, "GetUserLikes", "get_user_likes")
        /\ calls[c2].user_id = "e1" /\ Len(calls[c2].resp.likes) = 1
        /\ calls[c2].resp.likes[1].post_id = calls[c1].post_id

\* whether the input of a call is malformed: an empty or whitespace-only
\* user id, the post id 0, such an element in a bulk list, or both bulk
\* lists empty
Malformed(call) ==
    CASE call.op \in {"LikePost", "UnlikePost", "IsPostLiked"}
            -> trim(call.user_id) = "" \/ call.post_id = 0
      [] call.op = "GetUserLikes" -> trim(call.user_id) = ""
      [] call.op \in {"GetPostLikes", "GetLikesCount"} -> call.post_id = 0
      [] call.op = "UnlikePosts"
            -> \/ call.user_ids = <<>> /\ call.post_ids = <<>>
               \/ \E i \in 1..Len(call.user_ids) : trim(call.user_ids[i]) = ""
               \/ \E i \in 1..Len(call.post_ids) : call.post_ids[i] = 0
      [] OTHER -> FALSE

\* C13: a call with malformed input has ended with the invalid-argument
\* status, and has issued no collaborator request and no storage statement.
C13_ValidationBeforeIo ==
    \A c \in CallIds :
        Malformed(calls[c])
        => /\ calls[c].pc = "done"
           /\ calls[c].resp.code = "invalid_argument"
           /\ calls[c].io = <<>>

\* the calls a handler makes to the repository
RepositoryCalls ==
    {"create_like", "delete_like", "get_user_likes", "get_post_likes",
     "is_post_liked", "get_likes_count", "unlike_posts", "health_check"}

\* the RPC statuses that are errors
ErrorStatuses == {"invalid_argument", "not_found", "already_exists", "internal"}

\* the kinds of error a repository call can return
ErrorKinds == {"InvalidInput", "AlreadyExists", "Database", "Serialization", "Internal"}

\* C14: a repository call that returned an error is the last request of its
\* call, and the call has ended with an error status, without success flag
\* or payload; and for every kind of repository error, the error arm of
\* every handler answers an error status.
C14_RepositoryErrorsSurface ==
    /\ \A c \in CallIds : \A i \in 1..Len(calls[c].io) :
          (calls[c].io[i].call \in RepositoryCalls /\ calls[c].io[i].outcome /= "Ok")
          => /\ i = Len(calls[c].io)
             /\ calls[c].pc = "done"
             /\ calls[c].resp.code \in ErrorStatuses
             /\ ~calls[c].resp.success /\ ~calls[c].resp.is_liked
             /\ calls[c].resp.liked_at = None /\ calls[c].resp.likes = <<>>
             /\ calls[c].resp.pagination = None /\ calls[c].resp.status = ""
    /\ \A kind \in ErrorKinds :
          LET result == Err(LikesError(kind, "message", None), likes)
          IN /\ like_post_response(result).code \in ErrorStatuses
             /\ unlike_post_response(result).code \in ErrorStatuses
             /\ get_user_likes_response(result).code \in ErrorStatuses
             /\ get_post_likes_response(result).code \in ErrorStatuses
             /\ is_post_liked_response(result).code \in ErrorStatuses
             /\ get_likes_count_response(result).code \in ErrorStatuses
             /\ unlike_posts_response(result).code \in ErrorStatuses
             /\ health_check_response(result, now).code \in ErrorStatuses

\* C14 witness: a LikePost whose insert the engine turned down and a
\* GetPostLikes whose second statement failed have both ended with the
\* internal status.
C14_Witness ==
    \E c1 \in CallIds : \E c2 \in CallIds :
        /\ calls[c1].op = "LikePost" /\ calls[c1].pc = "done" /\ Len(calls[c1].io) = 4
        /\ LastIo(calls[c1]).outcome = "Database" /\ LastIo(calls[c1]).text = IndexExistsText
        /\ calls[c1].resp.code = "internal"
        /\ calls[c2].op = "GetPostLikes" /\ calls[c2].pc = "done"
        /\ Len(calls[c2].io) = 2 /\ LastIo(calls[c2]).outcome = "Database"
        /\ calls[c2].resp.code = "internal"

\* the operations that resolve the user and fail hard when they cannot
HardFailOps == {"UnlikePost", "GetUserLikes", "IsPostLiked"}

\* C15: in UnlikePost, GetUserLikes and IsPostLiked, when the fetch of the
\* user fails or gives no user record, the call ends with an error status
\* (internal, not-found), the repository is not called and the store is as
\* it was; GetPostLikes and GetLikesCount send nothing to a collaborator.
C15_HardFailResolution ==
    [][\A c \in CallIds :
          /\ ( /\ calls[c].op \in HardFailOps /\ calls[c].pc = "get_user"
               /\ calls'[c].io /= <<>>
               /\ LastIo(calls'[c]).outcome \in {"err", "none"} )
             => /\ calls'[c].pc = "done"
                /\ calls'[c].resp.code \in {"internal", "not_found"}
                /\ ~calls'[c].resp.success /\ calls'[c].resp.pagination = None
                /\ \A i \in 1..Len(calls'[c].io) : calls'[c].io[i].call \notin RepositoryCalls
                /\ likes' = likes
          /\ calls'[c].op \in {"GetPostLikes", "GetLikesCount"}
             => \A i \in 1..Len(calls'[c].io) : calls'[c].io[i].call \in RepositoryCalls]_vars

\* C15 witness: with a like in the store, a GetUserLikes has ended with
\* not-found after a fetch that gave no user record, and an UnlikePost with
\* internal after a fetch that failed.
C15_Witness ==
    \E c1 \in CallIds : \E c2 \in CallIds :
        /\ likes /= {}
        /\ calls[c1].op = "GetUserLikes" /\ calls[c1].pc = "done" /\ Len(calls[c1].io) = 1
        /\ calls[c1].io[1].outcome = "none" /\ calls[c1].resp.code = "not_found"
        /\ calls[c2].op = "UnlikePost" /\ calls[c2].pc = "done" /\ Len(calls[c2].io) = 1
        /\ calls[c2].io[1].outcome = "err" /\ calls[c2].resp.code = "internal"

\* C16: UnlikePosts resolves the user ids one request at a time in list
\* order; when a resolution fails (a failed fetch or no user record) the
\* call ends at once with an error status, no bulk delete is issued, then or
\* later, and the store is as it was, also for the users resolved before.
C16_BulkResolutionAllOrNothing ==
    [][\A c \in CallIds :
          (calls[c].op = "UnlikePosts" /\ calls[c].pc = "resolve" /\ calls'[c] /= calls[c])
          => LET k == Len(calls[c].db_user_ids) + 1
                 reply == LastIo(calls'[c])
             IN /\ Len(calls'[c].io) = k /\ reply.call = "get_user"
                /\ reply.outcome = "some"
                      => /\ calls'[c].db_user_ids
                               = Append(calls[c].db_user_ids, CanonicalId(calls[c].user_ids[k]))
                         /\ k < Len(calls[c].user_ids) => calls'[c].pc = "resolve"
                /\ reply.outcome /= "some"
                      => /\ calls'[c].pc = "done"
                         /\ calls'[c].resp.code \in {"internal", "not_found"}
                         /\ ~calls'[c].resp.success
                         /\ calls'[c].db_user_ids = calls[c].db_user_ids
                /\ likes' = likes]_vars

\* C16 witness: a bulk unlike of [e1, e2] on post 2 has ended with an error
\* at the resolution of e2, after e1 was resolved, and the like of (u1, 2)
\* is still there.
C16_Witness ==
    \E c \in CallIds :
        /\ calls[c].op = "UnlikePosts" /\ calls[c].pc = "done"
        /\ calls[c].user_ids = <<"e1", "e2">> /\ calls[c].db_user_ids = <<"u1">>
        /\ Len(calls[c].io) = 2 /\ calls[c].io[2].outcome \in {"err", "none"}
        /\ calls[c].resp.code \in {"internal", "not_found"}
        /\ RowsOf(likes, "u1", 2) /= {}

\* C17: unlikePosts rejects with InvalidInput exactly the calls whose two
\* lists are both empty, and deletes nothing then: the repository function,
\* on the lists of every bulk call and the store of every reachable state,
\* returns InvalidInput if and only if both lists are empty, leaving the
\* store as it is; the handler answers such a call with invalid-argument
\* before any request; and a bulk delete that is issued (at least one list
\* not empty) and reaches the engine is executed, never rejected.
C17_RejectedIffBothEmpty ==
    \A c \in CallIds :
        calls[c].op = "UnlikePosts" =>
            LET both == calls[c].user_ids = <<>> /\ calls[c].post_ids = <<>>
                result == unlike_posts(likes, Canonical(calls[c].user_ids), calls[c].post_ids, TRUE)
            IN /\ (Outcome(result) = "InvalidInput") <=> both
               /\ both => result.store = likes
               /\ ~both => /\ result.ok
                           /\ result.store = likes \ unlike_posts_where(likes,
                                   Canonical(calls[c].user_ids), calls[c].post_ids)
               /\ both => /\ calls[c].pc = "done" /\ calls[c].io = <<>>
                          /\ calls[c].resp.code = "invalid_argument"
               /\ (calls[c].resp.message = "User IDs and Post IDs cannot be empty") => both
               /\ Finished(c, "UnlikePosts", "unlike_posts")
                     => (LastIo(calls[c]).outcome = "Ok" /\ calls[c].resp.code = "ok")

\* C17 witness: a bulk unlike with both lists empty has been rejected, and
\* one with post_ids only has been executed and has removed a like.
C17_Witness ==
    \E c1 \in CallIds : \E c2 \in CallIds :
        /\ calls[c1].op = "UnlikePosts" /\ calls[c1].pc = "done"
        /\ calls[c1].user_ids = <<>> /\ calls[c1].post_ids = <<>>
        /\ calls[c1].resp.code = "invalid_argument"
        /\ Finished(c2, "UnlikePosts", "unlike_posts")
        /\ calls[c2].user_ids = <<>> /\ calls[c2].post_ids /= <<>>
        /\ LastIo(calls[c2]).rows = 1

\* C18: PaginationParams::new turns a page below 1 into 1 and keeps any
\* other page, turns a limit below 1 into 10 and a limit above 100 into 100
\* and keeps any other limit, so that page >= 1 and 1 <= limit <= 100; the
\* current_page and limit of a paginated result are these values.
C18_PaginationClamp ==
    pagination /= None =>
        /\ pagination.params /= None =>
              LET params == pagination.params[1] IN
              /\ params.page = (IF pagination.page < 1 THEN 1 ELSE pagination.page)
              /\ pagination.limit < 1 => params.limit = 10
              /\ pagination.limit > 100 => params.limit = 100
              /\ pagination.limit \in 1..100 => params.limit = pagination.limit
              /\ params.page >= 1 /\ params.limit >= 1 /\ params.limit <= 100
        /\ pagination.result /= None =>
              /\ pagination.result[1].current_page = pagination.params[1].page
              /\ pagination.result[1].limit = pagination.params[1].limit

\* C18 witness: the page i32::MIN and the limit 101 have become page 1 and
\* limit 100, and a result has been built with them.
C18_Witness ==
    /\ pagination /= None
    /\ pagination.page = MinI32 /\ pagination.limit = 101
    /\ pagination.params = Some([page |-> 1, limit |-> 100])
    /\ pagination.result /= None
    /\ pagination.result[1].current_page = 1 /\ pagination.result[1].limit = 100

\* C19: total_pages is the ceiling of total_count / limit: the least n with
\* n * limit >= total_count, for every total_count >= 0 and limit in 1..100.
C19_TotalPagesIsCeiling ==
    (pagination /= None /\ pagination.result /= None) =>
        LET n == pagination.result[1].total_pages
            limit == pagination.result[1].limit
        IN /\ n >= 0
           /\ ~WideLess(WideMul(n, limit), pagination.total_count)
           /\ n > 0 => WideLess(WideMul(n - 1, limit), pagination.total_count)

\* C20: offset() is the product (page - 1) * limit of the clamped values,
\* is not negative and fits i32: the computation does not overflow.
C20_OffsetIsProduct ==
    (pagination /= None /\ pagination.offset /= None) =>
        LET params == pagination.params[1]
            offset == pagination.offset[1]
        IN /\ ~offset.panic
           /\ offset.value >= 0
           /\ Wide(offset.value) = WideMul(params.page - 1, params.limit)

\* the place of like l among rows in descending order of created_at
Position(l, rows) == 1 + Cardinality({m \in rows : m.created_at > l.created_at})

\* the likes of the store a paginated read matches
Matching(call) ==
    IF call.op = "GetUserLikes" THEN {l \in likes : l.user_id = call.db_user_id}
    ELSE {l \in likes : l.post_id = call.post_id}

\* call is a paginated read that has answered with the OK status
Answered(call) ==
    call.op \in {"GetUserLikes", "GetPostLikes"} /\ call.pc = "done" /\ call.resp.code = "ok"

\* the item of a paginated response that stands for like l
ItemOf(call, l) ==
    IF call.op = "GetUserLikes"
    THEN [post_id |-> l.post_id, liked_at |-> Some(datetime_to_timestamp(l.liked_at))]
    ELSE [user_id |-> l.user_id, liked_at |-> Some(datetime_to_timestamp(l.liked_at))]

\* timestamp a is later than timestamp b
Later(a, b) == a.seconds > b.seconds \/ (a.seconds = b.seconds /\ a.nanos > b.nanos)

\* the page and the limit a paginated read works with
PageOf(call) == PaginationParams_new(call.page, call.limit).page

LimitOf(call) == PaginationParams_new(call.page, call.limit).limit

\* C21: on a store no write touches, a GetUserLikes or GetPostLikes that
\* answers page k answers the likes at the places (k-1)*limit+1 .. k*limit
\* of the matching likes in descending order of created_at, in that order:
\* the items of a page are newest first, the last item of page k is newer
\* than the first of page k+1, the two pages share no like, and every
\* matching like is on one of the pages 1..total_pages.
C21_PagesInOrder ==
    /\ \A c \in CallIds :
          Answered(calls[c]) =>
              LET k == PageOf(calls[c])
                  n == LimitOf(calls[c])
                  rows == Matching(calls[c])
                  data == calls[c].resp.likes
              IN /\ Len(data) = Cardinality({l \in rows :
                                    Position(l, rows) \in ((k - 1) * n + 1)..(k * n)})
                 /\ \A i \in 1..Len(data) :
                       \E l \in rows : /\ Position(l, rows) = (k - 1) * n + i
                                       /\ data[i] = ItemOf(calls[c], l)
                 /\ \A i \in 1..Len(data) : \A j \in 1..Len(data) :
                       i < j => Later(data[i].liked_at[1], data[j].liked_at[1])
                 /\ calls[c].resp.pagination[1].total_pages * n >= Cardinality(rows)
                 /\ k > calls[c].resp.pagination[1].total_pages => data = <<>>
    /\ \A c1 \in CallIds : \A c2 \in CallIds :
          ( /\ Answered(calls[c1]) /\ Answered(calls[c2])
            /\ calls[c1].op = calls[c2].op
            /\ Matching(calls[c1]) = Matching(calls[c2])
            /\ LimitOf(calls[c1]) = LimitOf(calls[c2])
            /\ PageOf(calls[c2]) = PageOf(calls[c1]) + 1 )
          => LET first == calls[c1].resp.likes
                 second == calls[c2].resp.likes
             IN /\ Range(first) \cap Range(second) = {}
                /\ (first /= <<>> /\ second /= <<>>)
                      => Later(first[Len(first)].liked_at[1], second[1].liked_at[1])

\* C21 witness: of the three likes of a user, page 1 with limit 2 has been
\* answered with two and page 2 with the third.
C21_Witness ==
    \E c1 \in CallIds : \E c2 \in CallIds :
        /\ Answered(calls[c1]) /\ calls[c1].op = "GetUserLikes"
        /\ calls[c1].page = 1 /\ calls[c1].limit = 2 /\ Len(calls[c1].resp.likes) = 2
        /\ Answered(calls[c2]) /\ calls[c2].op = "GetUserLikes"
        /\ calls[c2].page = 2 /\ calls[c2].limit = 2 /\ Len(calls[c2].resp.likes) = 1
        /\ Cardinality(Matching(calls[c1])) = 3

\* C22: a paginated read always counts first, with the filter of the fetch:
\* on a store no write touches, every GetUserLikes or GetPostLikes that
\* answers has issued the count statement and then the fetch statement, its
\* total_count is the number of matching likes and its total_pages the
\* ceiling of total_count / limit, on every page; on a page beyond the end
\* the data is empty and both numbers are the same as on the other pages.
C22_CountMatchesFetch ==
    \A c \in CallIds :
        LET call == calls[c]
            n == LimitOf(call)
            total == Cardinality(Matching(call))
            repository == SelectSeq(call.io, LAMBDA e : e.call \in RepositoryCalls)
        IN /\ (call.op \in {"GetUserLikes", "GetPostLikes"} /\ call.pc = "page")
                 => (call.total_count = total /\ Len(repository) = 1)
           /\ Answered(call)
                 => /\ Len(repository) = 2
                    /\ repository[1].outcome = "Ok" /\ repository[2].outcome = "Ok"
                    /\ call.resp.pagination /= None
                    /\ call.resp.pagination[1].total_count = Wide(total)
                    /\ call.resp.pagination[1].total_pages = (total + n - 1) \div n
                    /\ call.resp.pagination[1].current_page = PageOf(call)
                    /\ PageOf(call) > (total + n - 1) \div n => call.resp.likes = <<>>
                    /\ Len(call.resp.likes) <= total

\* C22 witness: page 3 with limit 2 of a post with two likes has been
\* answered with no data, total_count 2 and total_pages 1, while page 1 of
\* the same post has been answered with both likes and the same numbers.
C22_Witness ==
    \E c1 \in CallIds : \E c2 \in CallIds :
        /\ Answered(calls[c1]) /\ calls[c1].op = "GetPostLikes" /\ calls[c1].page = 3
        /\ calls[c1].resp.likes = <<>>
        /\ calls[c1].resp.pagination[1].total_count = Wide(2)
        /\ calls[c1].resp.pagination[1].total_pages = 1
        /\ Answered(calls[c2]) /\ calls[c2].op = "GetPostLikes" /\ calls[c2].page = 1
        /\ Len(calls[c2].resp.likes) = 2
        /\ calls[c2].resp.pagination[1] = [calls[c1].resp.pagination[1] EXCEPT !.current_page = 1]

\* the paginated reads
PagedReads == {"GetUserLikes", "GetPostLikes"}

\* C23: the count and the fetch of a paginated read are two storage steps,
\* each on the store as it is when the step runs: the count step keeps the
\* number of matching likes of that moment, and the fetch step, whatever has
\* been written in between, answers the OK status with the rows of the
\* store of its own moment and the count kept from the first step, as it
\* is: no error, no second count, no further statement.
C23_NoSnapshot ==
    [][\A c \in CallIds :
          /\ ( /\ calls[c].op \in PagedReads /\ calls[c].pc = "count"
               /\ calls'[c].pc = "page" )
             => /\ calls'[c].total_count = Cardinality(Matching(calls[c]))
                /\ Len(calls'[c].io) = Len(calls[c].io) + 1
                /\ likes' = likes
          /\ ( /\ calls[c].op \in PagedReads /\ calls[c].pc = "page"
               /\ calls'[c].pc = "done" /\ LastIo(calls'[c]).text /= ConnectionText )
             => LET k == PageOf(calls[c])
                    n == LimitOf(calls[c])
                    rows == Matching(calls[c])
                    data == calls'[c].resp.likes
                IN /\ calls'[c].resp.code = "ok"
                   /\ calls'[c].resp.pagination[1].total_count = Wide(calls[c].total_count)
                   /\ Len(data) = Cardinality({l \in rows :
                                      Position(l, rows) \in ((k - 1) * n + 1)..(k * n)})
                   /\ \A i \in 1..Len(data) :
                         \E l \in rows : /\ Position(l, rows) = (k - 1) * n + i
                                         /\ data[i] = ItemOf(calls[c], l)
                   /\ Len(calls'[c].io) = Len(calls[c].io) + 1
                   /\ likes' = likes]_vars

\* C23 witness: a GetPostLikes has answered one like with total_count 0 and
\* total_pages 0: a LikePost in the other call stored the like between the
\* count and the fetch.
C23_Witness ==
    \E c1 \in CallIds : \E c2 \in CallIds :
        /\ Answered(calls[c1]) /\ calls[c1].op = "GetPostLikes"
        /\ Len(calls[c1].resp.likes) = 1
        /\ calls[c1].resp.pagination[1].total_count = Wide(0)
        /\ calls[c1].resp.pagination[1].total_pages = 0
        /\ Finished(c2, "LikePost", "create_like") /\ calls[c2].resp.success
        /\ calls[c2].post_id = calls[c1].post_id

\* C24: an InvalidInput error becomes the invalid-argument status, NotFound
\* not-found, AlreadyExists already-exists, and Database, Serialization and
\* Internal the internal status; the status of a Database error has the
\* message 'Database error occurred' whatever the backend said, so two
\* Database errors with different backend texts give the same status.
C24_ErrorToStatus ==
    /\ \A i \in 1..Len(conversion) :
          LET error == conversion[i].error
              status == conversion[i].status
          IN /\ error.kind = "InvalidInput" => status.code = "invalid_argument"
             /\ error.kind = "NotFound" => status.code = "not_found"
             /\ error.kind = "AlreadyExists" => status.code = "already_exists"
             /\ error.kind \in {"Database", "Serialization", "Internal"}
                   => status.code = "internal"
             /\ error.kind = "Database" => status.message = "Database error occurred"
    /\ \A i \in 1..Len(conversion) : \A j \in 1..Len(conversion) :
          (conversion[i].error.kind = "Database" /\ conversion[j].error.kind = "Database")
          => conversion[i].status = conversion[j].status

\* C24 witness: the error of a violated unique index and the error of a
\* closed connection have both been converted.
C24_Witness ==
    /\ Len(conversion) = 2
    /\ conversion[1].error = DatabaseError(IndexExistsText)
    /\ conversion[2].error = DatabaseError(ConnectionText)
    /\ conversion[1].status.code = "internal"
    /\ conversion[2].status.message = "Database error occurred"

\* a downstream request that failed: an existence check that gave false, a
\* user fetch that gave an error, a repository call that gave an error
Failed(entry) ==
    \/ entry.outcome \in {"false", "err"}
    \/ entry.call \in RepositoryCalls /\ entry.outcome /= "Ok"

\* the number of downstream requests a call issues when none of them fails
RequestsOf(call) ==
    CASE call.op = "LikePost" -> 4
      [] call.op = "GetUserLikes" -> 3
      [] call.op \in {"UnlikePost", "IsPostLiked", "GetPostLikes"} -> 2
      [] call.op \in {"GetLikesCount", "HealthCheck"} -> 1
      [] call.op = "UnlikePosts" -> Len(call.user_ids) + 1
      [] OTHER -> 0

\* C25: within a call, a downstream request that failed is the last request
\* of the call: the call has ended, with an error status or, in LikePost,
\* with the structured failure; it is not issued again and nothing is issued
\* after it. No call issues more requests than its flow has steps.
C25_NoRetries ==
    \A c \in CallIds :
        /\ Len(calls[c].io) <= RequestsOf(calls[c])
        /\ \A i \in 1..Len(calls[c].io) :
              Failed(calls[c].io[i])
              => /\ i = Len(calls[c].io)
                 /\ calls[c].pc = "done"
                 /\ \/ calls[c].resp.code \in ErrorStatuses
                    \/ /\ calls[c].op = "LikePost" /\ calls[c].resp.code = "ok"
                       /\ ~calls[c].resp.success

\* C25 witness: a GetUserLikes has ended with the internal status at its
\* count statement that failed, after one user fetch, and an UnlikePosts of
\* two users at the fetch of the second user that failed.
C25_Witness ==
    \E c1 \in CallIds : \E c2 \in CallIds :
        /\ calls[c1].op = "GetUserLikes" /\ calls[c1].pc = "done"
        /\ Len(calls[c1].io) = 2 /\ calls[c1].io[2].outcome = "Database"
        /\ calls[c1].resp.code = "internal"
        /\ calls[c2].op = "UnlikePosts" /\ calls[c2].pc = "done"
        /\ Len(calls[c2].io) = 2 /\ calls[c2].io[2].outcome = "err"
        /\ calls[c2].resp.code = "internal"

\* the steps of the startup attempted so far, by name
StepsOf(p) == [i \in 1..Len(p.log) |-> p.log[i].step]

\* every step attempted before the i-th one was Ok
AllOkBefore(p, i) == \A j \in 1..(i - 1) : p.log[j].outcome = "ok"

\* C26: with a ws:// or wss:// url, Database::new connects, then signs in
\* with DB_USER and DB_PASSWORD of the environment, then selects namespace
\* and database, and only then sends its first query, the schema
\* definition; when a credential is not set or the sign-in fails,
\* Database::new has returned an error, the process has exited and no query
\* was sent, by the startup or by a call.
C26_SignInBeforeQuery ==
    Networked(startup.env.database_url) =>
        LET log == startup.log
            failed == \E i \in 1..Len(log) : log[i].step = "signin" /\ log[i].outcome = "error"
            missing == ~startup.env.db_user \/ ~startup.env.db_password
            connected == \E i \in 1..Len(log) : log[i].step = "connect" /\ log[i].outcome = "ok"
        IN /\ \A i \in 1..Len(log) :
                 log[i].step = "query"
                 => /\ SubSeq(StepsOf(startup), 1, i)
                          = <<"from_env", "connect", "signin", "use_ns", "query">>
                    /\ AllOkBefore(startup, i)
           /\ \A i \in 1..Len(log) :
                 log[i].step = "signin" => (startup.env.db_user /\ startup.env.db_password)
           /\ (failed \/ (missing /\ connected))
                 => /\ startup.pc = "exited" /\ startup.error /= None
                    /\ \A i \in 1..Len(log) : log[i].step \notin {"use_ns", "query"}
                    /\ \A c \in CallIds : calls[c] = Idle

\* C26 witness: a process with a wss:// url and both credentials has sent
\* the schema definition after connect, sign-in and the selection.
C26_Witness ==
    /\ startup.env.database_url = "wss://"
    /\ startup.env.db_user /\ startup.env.db_password
    /\ Len(startup.log) >= 5
    /\ startup.log[3] = [step |-> "signin", outcome |-> "ok"]
    /\ startup.log[4] = [step |-> "use_ns", outcome |-> "ok"]
    /\ startup.log[5].step = "query"

\* the steps of a startup that ends in serving, for the engine of the url
StartupSteps(database_url) ==
    IF Networked(database_url)
    THEN <<"from_env", "connect", "signin", "use_ns", "query", "user_client", "post_client", "serve">>
    ELSE <<"from_env", "connect", "use_ns", "query", "user_client", "post_client", "serve">>

\* a step of the startup that did not succeed: an Err, or a schema
\* definition the backend turned down
Unsuccessful(entry) == entry.outcome \in {"error", "statement_error"}

\* C27: the steps of the startup are attempted in the order configuration,
\* storage connection with schema definition, user client, post client,
\* server, each only after all earlier ones succeeded; the server serves,
\* and a call is taken, only after all of them succeeded; and when a step
\* did not succeed, a schema definition turned down by the backend
\* included, the process has exited with the error and serves no call.
C27_FailFastStartup ==
    LET log == startup.log
        steps == StartupSteps(startup.env.database_url)
    IN /\ Len(log) <= Len(steps)
       /\ \A i \in 1..Len(log) : log[i].step = steps[i]
       /\ \A i \in 1..Len(log) : \A j \in 1..(i - 1) : ~Unsuccessful(log[j])
       /\ (startup.pc = "serving" \/ \E c \in CallIds : calls[c] /= Idle)
             => /\ Len(log) = Len(steps)
                /\ \A i \in 1..Len(log) : ~Unsuccessful(log[i])
       /\ (\E i \in 1..Len(log) : Unsuccessful(log[i]))
             => /\ startup.pc = "exited" /\ startup.error /= None
                /\ \A c \in CallIds : calls[c] = Idle

\* C28: a HealthCheck sends the introspection query to the storage and
\* nothing to a collaborator; it answers the OK status with status
\* 'healthy' and a timestamp exactly when the query succeeded, and the
\* internal status 'Service unhealthy' when the query failed; the likes
\* store is as it was.
C28_HealthFollowsStorage ==
    [][\A c \in CallIds :
          ( /\ calls[c].op = "HealthCheck" /\ calls[c].pc = "health_check"
            /\ calls'[c].pc = "done" )
          => LET query == LastIo(calls'[c])
                 resp == calls'[c].resp
             IN /\ Len(calls'[c].io) = 1 /\ query.call = "health_check"
                /\ likes' = likes
                /\ query.text = None
                      => /\ resp.code = "ok" /\ resp.status = "healthy"
                         /\ resp.timestamp = Some(datetime_to_timestamp(TimeNow(now)))
                /\ query.text /= None
                      => /\ resp.code = "internal" /\ resp.message = "Service unhealthy"
                         /\ resp.status = "" /\ resp.timestamp = None]_vars

\* C29: an unlike, single or bulk, takes the rows it matches out of the
\* store and leaves nothing of them: after it the pair has no record. And a
\* pair without a record is a pair that is not liked, whatever was liked
\* and unliked before: IsPostLiked answers is_liked=false, GetLikesCount
\* counts the records there are, and a LikePost whose insert runs stores a
\* new record and answers success, not already-exists.
C29_PhysicalDeletion ==
    [][\A c \in CallIds :
          LET u == calls[c].db_user_id
              p == calls[c].post_id
          IN
          /\ RepositoryStep(c, "UnlikePost", "delete_like")
                => /\ RowsOf(likes', u, p) = {}
                   /\ likes' = likes \ RowsOf(likes, u, p)
          /\ RepositoryStep(c, "UnlikePosts", "unlike_posts")
                => /\ likes' \subseteq likes
                   /\ unlike_posts_where(likes', calls[c].db_user_ids, calls[c].post_ids) = {}
          /\ (RepositoryStep(c, "IsPostLiked", "is_post_liked") /\ RowsOf(likes, u, p) = {})
                => /\ calls'[c].resp.code = "ok" /\ ~calls'[c].resp.is_liked
                   /\ calls'[c].resp.liked_at = None
          /\ RepositoryStep(c, "GetLikesCount", "get_likes_count")
                => calls'[c].resp.count = Cardinality({l \in likes : l.post_id = p})
          /\ (RepositoryStep(c, "LikePost", "create_like") /\ RowsOf(likes, u, p) = {})
                => /\ calls'[c].resp.code = "ok" /\ calls'[c].resp.success
                   /\ Cardinality(RowsOf(likes', u, p)) = 1
                   /\ likes' \ likes = RowsOf(likes', u, p)]_vars

\* C29 witness: an UnlikePost has removed the like of a pair, and a LikePost
\* for the same pair after it has succeeded: the pair's record is the
\* second one the service built.
C29_Witness ==
    \E c1 \in CallIds : \E c2 \in CallIds :
        /\ Finished(c1, "UnlikePost", "delete_like") /\ LastIo(calls[c1]).rows = 1
        /\ Finished(c2, "LikePost", "create_like") /\ calls[c2].resp.success
        /\ calls[c1].db_user_id = calls[c2].db_user_id
        /\ calls[c1].post_id = calls[c2].post_id
        /\ \E l \in RowsOf(likes, calls[c2].db_user_id, calls[c2].post_id) : l.id = 2

\* C30: a stored Like is never modified. On every step a row that stays in
\* the store keeps its id, user_id, post_id, liked_at and created_at; a row
\* enters the store only in the create_like step of a LikePost, and it is
\* the row Like::new built for that call; a row leaves the store only in
\* the delete step of an UnlikePost or an UnlikePosts.
C30_NeverModified ==
    [][/\ \A l \in likes : \A m \in likes' :
              m.id = l.id => /\ m.user_id = l.user_id /\ m.post_id = l.post_id
                             /\ m.liked_at = l.liked_at /\ m.created_at = l.created_at
       /\ likes' \ likes /= {}
              => \E c \in CallIds :
                    /\ RepositoryStep(c, "LikePost", "create_like")
                    /\ likes' \ likes = {Like_new(calls[c].db_user_id, calls[c].post_id,
                                                  nextId + 1, now)}
       /\ likes \ likes' /= {}
              => \E c \in CallIds : \/ RepositoryStep(c, "UnlikePost", "delete_like")
                                    \/ RepositoryStep(c, "UnlikePosts", "unlike_posts")]_vars

\* C30 witness: the first like the service stored is still in the store as
\* it was built, after a second like was stored and an UnlikePost removed
\* a row.
C30_Witness ==
    /\ nextId = 2
    /\ \E l \in likes : l = Like_new(l.user_id, l.post_id, 1, 0)
    /\ \E c \in CallIds :
          Finished(c, "UnlikePost", "delete_like") /\ LastIo(calls[c]).rows = 1

\* C31: create_like answers InvalidInput to an empty user_id or a post_id
\* that is not positive, whether the storage can be reached or not, and then
\* no record was built and the store is as before. With valid arguments, a
\* pair that has no like and a statement that runs, it adds exactly one
\* record to the store, with an id no record had, the arguments as user_id
\* and post_id and the time of the call as liked_at, created_at and
\* updated_at, and answers that record. A Response without error and
\* without row is answered with Internal.
C31_CreateLike ==
    /\ (invocation /= None /\ invocation.call = "create_like")
          => LET u == invocation.user_id
                 p == invocation.post_id
                 result == invocation.result
             IN IF u = "" \/ p <= 0
                THEN /\ ~result.ok /\ result.error.kind = "InvalidInput"
                     /\ likes = invocation.before
                     /\ nextId = Cardinality(invocation.before)
                ELSE (invocation.up /\ RowsOf(invocation.before, u, p) = {})
                        => /\ result.ok
                           /\ result.value \notin invocation.before
                           /\ likes = invocation.before \cup {result.value}
                           /\ \A l \in invocation.before : l.id /= result.value.id
                           /\ result.value.user_id = u /\ result.value.post_id = p
                           /\ result.value.liked_at = TimeNow(now - 1)
                           /\ result.value.created_at = result.value.liked_at
                           /\ result.value.updated_at = result.value.liked_at
    /\ (/\ invocation /= None /\ invocation.call = "create_like_take"
        /\ invocation.answer.err = None /\ invocation.answer.rows = <<>>)
          => /\ ~invocation.result.ok /\ invocation.result.error.kind = "Internal"
             /\ likes = invocation.before

\* C31 witness: create_like was called with the post id zero while the
\* storage could not be reached, on a store that holds likes
C31_Witness ==
    /\ invocation /= None /\ invocation.call = "create_like"
    /\ invocation.user_id = "u1" /\ invocation.post_id = 0 /\ ~invocation.up
    /\ invocation.before /= {}
    /\ invocation.result.error.kind = "InvalidInput"

\* C32: a LikePost that found its user absent, at the existence check or at
\* the fetch that follows it, never ends with the not-found status and
\* never issues the insert.
C32_AbsentUserSoftFail ==
    \A c \in CallIds :
        ( /\ calls[c].op = "LikePost" /\ calls[c].pc = "done"
          /\ \E i \in 1..Len(calls[c].io) :
                \/ calls[c].io[i].call = "user_exists" /\ calls[c].io[i].outcome = "false"
                \/ calls[c].io[i].call = "get_user" /\ calls[c].io[i].outcome = "none" )
        => /\ calls[c].resp.code /= "not_found"
           /\ \A i \in 1..Len(calls[c].io) : calls[c].io[i].call /= "create_like"

\* C33: an existence check of LikePost whose collaborator request failed
\* reports absence: the call ends there with the OK status, success=false,
\* 'User not found' or 'Post not found' and no liked_at, as it does when
\* the entity is absent. No LikePost ends with the internal status of a
\* failed validation.
C33_ExistenceChecksNeverFail ==
    \A c \in CallIds :
        /\ \A i \in 1..Len(calls[c].io) :
              ( /\ calls[c].io[i].call \in {"user_exists", "post_exists"}
                /\ calls[c].io[i].text = TransportText )
              => /\ calls[c].io[i].outcome = "false"
                 /\ i = Len(calls[c].io) /\ calls[c].pc = "done"
                 /\ calls[c].resp.code = "ok" /\ ~calls[c].resp.success
                 /\ calls[c].resp.liked_at = None
                 /\ calls[c].resp.message
                        = (IF calls[c].io[i].call = "user_exists"
                           THEN "User not found" ELSE "Post not found")
        /\ calls[c].resp.message \notin {"User validation failed", "Post validation failed"}

\* C33 witness: one LikePost has ended at its user existence check with the
\* user service out of reach, another at its post existence check with the
\* post service out of reach.
C33_Witness ==
    \E c1 \in CallIds : \E c2 \in CallIds :
        /\ calls[c1].op = "LikePost" /\ calls[c1].pc = "done" /\ calls[c1].io /= <<>>
        /\ LastIo(calls[c1]).call = "user_exists"
        /\ LastIo(calls[c1]).text = TransportText
        /\ calls[c2].op = "LikePost" /\ calls[c2].pc = "done" /\ calls[c2].io /= <<>>
        /\ LastIo(calls[c2]).call = "post_exists"
        /\ LastIo(calls[c2]).text = TransportText

\* the operations that read
ReadOps == {"GetUserLikes", "GetPostLikes", "IsPostLiked", "GetLikesCount", "HealthCheck"}

\* C34: no step of a GetUserLikes, GetPostLikes, IsPostLiked, GetLikesCount
\* or HealthCheck call changes the store, from the arrival of the call to
\* its last request, whether the request succeeds or fails.
C34_ReadsLeaveStore ==
    [][\A c \in CallIds :
          (calls'[c].op \in ReadOps /\ calls'[c] /= calls[c]) => likes' = likes]_vars

\* C34 witness: on a store that holds a like, an IsPostLiked for the pair of
\* that like has ended with an error and a GetLikesCount for its post has
\* answered 1.
C34_Witness ==
    \E c1 \in CallIds : \E c2 \in CallIds : \E l \in likes :
        /\ Finished(c1, "IsPostLiked", "is_post_liked")
        /\ calls[c1].db_user_id = l.user_id /\ calls[c1].post_id = l.post_id
        /\ calls[c1].resp.code = "internal"
        /\ Finished(c2, "GetLikesCount", "get_likes_count")
        /\ calls[c2].post_id = l.post_id
        /\ calls[c2].resp.code = "ok" /\ calls[c2].resp.count = 1

\* C35: create_like(u, p) and delete_like(u, p) leave every like of another
\* pair as it was, in the store and unchanged: the likes of u on other
\* posts and the likes of other users on p among them.
C35_OnlyOwnPair ==
    (invocation /= None /\ invocation.call \in {"create_like", "delete_like"})
        => LET others(store) == store \ RowsOf(store, invocation.user_id, invocation.post_id)
           IN /\ others(likes) = others(invocation.before)
              /\ likes = invocation.result.store

\* C35 witness: delete_like has removed the like of a pair from a store
\* that also holds a like of the same user on another post and a like of
\* another user on the same post.
C35_Witness ==
    /\ invocation /= None /\ invocation.call = "delete_like" /\ invocation.result.ok
    /\ RowsOf(invocation.before, invocation.user_id, invocation.post_id) /= {}
    /\ RowsOf(likes, invocation.user_id, invocation.post_id) = {}
    /\ \E l \in likes : l.user_id = invocation.user_id /\ l.post_id /= invocation.post_id
    /\ \E l \in likes : l.user_id /= invocation.user_id /\ l.post_id = invocation.post_id

\* the call ended with a storage statement issued
StorageStep(call) ==
    /\ call.pc = "done" /\ call.io /= <<>>
    /\ LastIo(call).call \in {"create_like", "delete_like"}

\* the storage step of a call run alone on a store, with the id counter and
\* the clock at n and t: the store, the counters and the response after it
Alone(call, state) ==
    LET up == LastIo(call).text /= ConnectionText
    IN IF ~StorageStep(call) THEN [state EXCEPT !.resp = call.resp]
       ELSE IF call.op = "LikePost"
       THEN LET result == create_like(state.store, call.db_user_id, call.post_id,
                                      state.n + 1, state.t, up)
            IN [store |-> result.store, n |-> state.n + 1, t |-> state.t + 1,
                resp |-> like_post_response(result)]
       ELSE LET result == delete_like(state.store, call.db_user_id, call.post_id, up)
            IN [store |-> result.store, n |-> state.n, t |-> state.t,
                resp |-> unlike_post_response(result)]

\* the store the race started on
RaceStart ==
    IF now > nextId THEN {Like_new(CanonicalId(RacePair[1]), RacePair[2], 0, 0)} ELSE {}

\* the two calls one after the other, a first: the store at the end and
\* the two responses
OneAfterTheOther(a, b) ==
    LET first == Alone(calls[a], [store |-> RaceStart, n |-> 0, t |-> Cardinality(RaceStart),
                                  resp |-> Response("pending", "")])
        second == Alone(calls[b], first)
    IN [store |-> second.store, first |-> first.resp, second |-> second.resp]

\* C36: when a LikePost or UnlikePost in each slot, both for the same pair
\* and with their steps interleaved in any way, have ended, the store and
\* the two responses are those of the two storage steps run one after the
\* other in one of the two orders.
C36_SomeSequentialOrder ==
    (\A c \in CallIds : calls[c].pc = "done")
        => \E a \in CallIds : \E b \in CallIds \ {a} :
              LET sequential == OneAfterTheOther(a, b)
              IN /\ likes = sequential.store
                 /\ calls[a].resp = sequential.first
                 /\ calls[b].resp = sequential.second

\* C36 witness: two LikePosts for the pair have both issued their insert
\* on a store where the pair was not liked; one has succeeded, the other
\* has been turned down, and the store holds one like of the pair.
C36_Witness ==
    \E c1 \in CallIds : \E c2 \in CallIds :
        /\ RaceStart = {}
        /\ Finished(c1, "LikePost", "create_like") /\ calls[c1].resp.success
        /\ Finished(c2, "LikePost", "create_like") /\ calls[c2].resp.code /= "ok"
        /\ Cardinality(likes) = 1

\* C37: a pool that was built holds at least one client, one per URL, and
\* a construction without URL fails; current_index is an index of the Vec
\* at all times; the k-th get_client hands out client (k - 1) mod len, the
\* first client first, so that any len calls in a row hand out every
\* client exactly once.
C37_RoundRobin ==
    /\ pool.service_urls = 0 => pool.pc /= "ready"
    /\ pool.pc = "ready"
          => LET len == Len(pool.clients)
             IN /\ len > 0 /\ len = pool.service_urls
                /\ pool.current_index \in 0..(len - 1)
                /\ \A k \in 1..Len(pool.handed) : pool.handed[k] = (k - 1) % len
                /\ \A k \in 1..Len(pool.handed) :
                      (k + len - 1 <= Len(pool.handed))
                      => /\ {pool.handed[j] : j \in k..(k + len - 1)} = 0..(len - 1)
                         /\ \A i \in k..(k + len - 1) : \A j \in k..(k + len - 1) :
                               pool.handed[i] = pool.handed[j] => i = j

\* C37 witness: a PostClientPool of three clients has handed out clients
\* seven times, twice around and on to the first again.
C37_Witness ==
    /\ pool.kind = "post" /\ pool.pc = "ready" /\ Len(pool.clients) = 3
    /\ Len(pool.handed) = 7 /\ pool.handed[7] = 0 /\ pool.current_index = 1

====
